---- MODULE Spec2Model ----
(***************************************************************************)
(* A model of kaitai_based_parquet_parser: the Thrift Compact parser of    *)
(* thrift_compact.ksy, the metadata mapper and page reader of              *)
(* thrift_compact_decode.go, and the level and value decoders.             *)
(*                                                                         *)
(* Bytes are the integers 0..255, byte strings are sequences of them and   *)
(* a Go string is the sequence of its bytes.  Positions are 1-based: a     *)
(* parser at position pos has consumed pos - 1 bytes.                      *)
(***************************************************************************)
EXTENDS Integers, Sequences, FiniteSets, TLC

VARIABLES
    tpc,        \* SpecFields, SpecMapper: "start", "parsed", "fields", "mapped";
                \* SpecPeek: "call", "peek", "returned", "failed"
    tBytes,     \* SpecFields, SpecMapper: the bytes handed to parseCompactStructFromBytes;
                \* SpecPeek: the bytes the reader has not handed out at the call
    tParse,     \* SpecFields, SpecMapper: what parseCompactStructFromBytes returned
    tKind,      \* SpecFields, SpecMapper: the decoder that was applied ("" before)
    tOut        \* SpecFields, SpecMapper: what that decoder returned;
                \* SpecPeek: the variables of parseCompactStructFromBufio

thriftVars == <<tpc, tBytes, tParse, tKind, tOut>>

VARIABLES
    dpc,        \* SpecDecode: "start", "done"
    dData,      \* SpecDecode: the buffer handed to the decoder
    dNum,       \* SpecDecode: numValues (count, for decodeBitPackedBytes)
    dCall,      \* SpecDecode: the decoder that was called, its other arguments
    dOut        \* SpecDecode: what it returned

decodeVars == <<dpc, dData, dNum, dCall, dOut>>

VARIABLES
    rpc,        \* Spec: "call", "loop", "returned", "failed", "panic"
    file,       \* Spec: the bytes of the file
    chunk,      \* Spec: the ColumnChunk
    schema,     \* Spec: the SchemaElement of the column
    rpos,       \* Spec: the bytes rbuf has handed out
    values,
    pagesRead,
    totalValuesRead,
    page,       \* Spec: what the last iteration of the page loop left
    calls       \* SpecTwo: the arguments and local variables of the two calls

readVars == <<rpc, file, chunk, schema, rpos, values, pagesRead, totalValuesRead,
              page, calls>>

vars == <<thriftVars, decodeVars, readVars>>

----------------------------------------------------------------------------
(* Bounds of the model.                                                    *)

\* SpecFields: the number of tokens an input byte string is built from
MaxFieldTokens == 4

\* SpecMapper: the number of fields of an input struct
MaxMapperFields == 2

\* SpecDecode: the number of tokens a buffer is built from
MaxDecodeTokens == 2

\* SpecPlain: the number of tokens a PLAIN buffer is built from
MaxPlainTokens == 4

\* SpecLevels: the number of tokens a level section is built from
MaxLevelTokens == 2

\* SpecVarint: the number of bytes of the longest varint
MaxVarintBytes == 11

\* Spec: the number of pages of a short file, and of a long one
MaxFilePages == 2

LongFilePages == 101

\* SpecPeek: the number of tokens the content of the reader is built from
MaxPeekTokens == 2

\* SpecTwo: the number of pages of the file
MaxTwoPages == 2

----------------------------------------------------------------------------
(* Integer helpers.                                                        *)

RECURSIVE Pow2(_)
Pow2(n) == IF n = 0 THEN 1 ELSE 2 * Pow2(n - 1)

\* Go's conversion int16(x): the low 16 bits of x, read as two's complement.
ToInt16(x) == ((x + 32768) % 65536) - 32768

Min(a, b) == IF a < b THEN a ELSE b

----------------------------------------------------------------------------
(* The Kaitai AST of thrift_compact.ksy.  A compact_value holds one member *)
(* per wire type and only the member of its value_type is non-nil: vt is   *)
(* the value_type, and "member k is non-nil" is vt = k.  vt = -1 is the    *)
(* nil pointer (the value of a STOP field).                                *)

MkValue(t, n, bin, elems, fields) ==
    [vt |-> t, n |-> n, bin |-> bin, elems |-> elems, fields |-> fields]

NilValue == MkValue(-1, 0, <<>>, <<>>, <<>>)

PFail == [ok |-> FALSE, pos |-> 0, v |-> NilValue]

\* varint_u / varint_z, seq: bytes repeated until one has bit 7 clear.
\* Returns the index of the last byte of the varint, 0 at end of stream.
RECURSIVE VarintEnd(_, _)
VarintEnd(b, pos) ==
    IF pos > Len(b) THEN 0
    ELSE IF b[pos] < 128 THEN pos
    ELSE VarintEnd(b, pos + 1)

\* instance value_u: the 7-bit groups of the first ten bytes, summed.  A
\* number of 64 bits is held as its low 28 bits (the groups 0..3, here) and
\* as "big", which says that a bit above them is set (ValueUBig).
RECURSIVE ValueU(_, _, _, _)
ValueU(b, first, last, k) ==
    IF first + k > last \/ k > 3 THEN 0
    ELSE (b[first + k] % 128) * Pow2(7 * k) + ValueU(b, first, last, k + 1)

\* the groups 4..8, and of "(bytes[9] & 0x7f) << 63" the one bit that is
\* left in 64 bits; the bytes behind the tenth are not in the sum
ValueUBig(b, first, last) ==
    \/ \E k \in 4..8 : first + k <= last /\ b[first + k] % 128 # 0
    \/ first + 9 <= last /\ b[first + 9] % 2 = 1

\* instance value of varint_z: (value_u >> 1) ^ (-(value_u & 1)).
ZigZag(u) == IF u % 2 = 0 THEN u \div 2 ELSE -(u \div 2) - 1

ParseVarintU(b, pos) ==
    LET e == VarintEnd(b, pos)
    IN  IF e = 0 THEN [ok |-> FALSE, pos |-> 0, n |-> 0, big |-> FALSE]
        ELSE [ok |-> TRUE, pos |-> e + 1, n |-> ValueU(b, pos, e, 0),
              big |-> ValueUBig(b, pos, e)]

ParseVarintZ(b, pos) ==
    LET r == ParseVarintU(b, pos)
    IN  IF r.ok THEN [r EXCEPT !.n = ZigZag(r.n)] ELSE r

\* byte_value, type s1
ToInt8(x) == IF x >= 128 THEN x - 256 ELSE x

RECURSIVE ParseValue(_, _, _)
RECURSIVE ParseFields(_, _, _)
RECURSIVE ParseElements(_, _, _, _, _)
RECURSIVE ParseEntries(_, _, _, _, _)

\* compact_string: len (varint_u), then that many bytes
ParseString(b, pos) ==
    LET l == ParseVarintU(b, pos)
    IN  IF ~l.ok THEN PFail
        ELSE IF l.pos - 1 + l.n > Len(b) THEN PFail
        ELSE [ok |-> TRUE, pos |-> l.pos + l.n,
              v |-> MkValue(8, 0, SubSeq(b, l.pos, l.pos + l.n - 1), <<>>, <<>>)]

\* compact_list: list_header, extended_size if the size nibble is 15, elements
ParseList(b, pos, t) ==
    IF pos > Len(b) THEN PFail
    ELSE LET short == (b[pos] \div 16) % 16
             et    == b[pos] % 16
             ext   == IF short = 15 THEN ParseVarintU(b, pos + 1)
                      ELSE [ok |-> TRUE, pos |-> pos + 1, n |-> short]
         IN  IF ~ext.ok THEN PFail
             ELSE LET r == ParseElements(b, ext.pos, et, ext.n, <<>>)
                  IN  IF ~r.ok THEN PFail
                      ELSE [ok |-> TRUE, pos |-> r.pos,
                            v |-> MkValue(t, 0, <<>>, r.v, <<>>)]

\* elements: compact_value(element_type), repeat-expr: list_size
ParseElements(b, pos, et, left, acc) ==
    IF left <= 0 THEN [ok |-> TRUE, pos |-> pos, v |-> acc]
    ELSE LET r == ParseValue(b, pos, et)
         IN  IF ~r.ok THEN [ok |-> FALSE, pos |-> 0, v |-> <<>>]
             ELSE ParseElements(b, r.pos, et, left - 1, Append(acc, r.v))

\* compact_map: size (varint_u), type_byte if size != 0, then size entries
ParseMap(b, pos) ==
    LET s == ParseVarintU(b, pos)
    IN  IF ~s.ok THEN PFail
        ELSE IF s.n = 0
             THEN [ok |-> TRUE, pos |-> s.pos, v |-> MkValue(11, 0, <<>>, <<>>, <<>>)]
        ELSE IF s.pos > Len(b) THEN PFail
        ELSE LET kt == (b[s.pos] \div 16) % 16
                 vt == b[s.pos] % 16
                 r  == ParseEntries(b, s.pos + 1, kt, vt, s.n)
             IN  IF ~r.ok THEN PFail
                 ELSE [ok |-> TRUE, pos |-> r.pos, v |-> MkValue(11, s.n, <<>>, <<>>, <<>>)]

\* map_entry: key, value (the mapper reads no map, so entries are not kept)
ParseEntries(b, pos, kt, vt, left) ==
    IF left <= 0 THEN [ok |-> TRUE, pos |-> pos]
    ELSE LET k == ParseValue(b, pos, kt)
         IN  IF ~k.ok THEN [ok |-> FALSE, pos |-> 0]
             ELSE LET w == ParseValue(b, k.pos, vt)
                  IN  IF ~w.ok THEN [ok |-> FALSE, pos |-> 0]
                      ELSE ParseEntries(b, w.pos, kt, vt, left - 1)

\* compact_struct: compact_field repeated until _.is_stop; the STOP field is
\* the last element of fields.
ParseStruct(b, pos) ==
    LET r == ParseFields(b, pos, <<>>)
    IN  IF ~r.ok THEN PFail
        ELSE [ok |-> TRUE, pos |-> r.pos, v |-> MkValue(12, 0, <<>>, <<>>, r.v)]

\* compact_value(value_type): the member selected by value_type; no byte is
\* read for a value_type without a member (0, 1, 2, 13, 14, 15).
ParseValue(b, pos, t) ==
    CASE t = 3 ->
            IF pos > Len(b) THEN PFail
            ELSE [ok |-> TRUE, pos |-> pos + 1,
                  v |-> MkValue(3, ToInt8(b[pos]), <<>>, <<>>, <<>>)]
      [] t \in {4, 5, 6} ->
            LET r == ParseVarintZ(b, pos)
            IN  IF ~r.ok THEN PFail
                ELSE [ok |-> TRUE, pos |-> r.pos, v |-> MkValue(t, r.n, <<>>, <<>>, <<>>)]
      [] t = 7 ->
            IF pos + 7 > Len(b) THEN PFail
            ELSE [ok |-> TRUE, pos |-> pos + 8,
                  v |-> MkValue(7, 0, SubSeq(b, pos, pos + 7), <<>>, <<>>)]
      [] t = 8 -> ParseString(b, pos)
      [] t \in {9, 10} -> ParseList(b, pos, t)
      [] t = 11 -> ParseMap(b, pos)
      [] t = 12 -> ParseStruct(b, pos)
      [] OTHER -> [ok |-> TRUE, pos |-> pos, v |-> MkValue(t, 0, <<>>, <<>>, <<>>)]

\* compact_field, instances
IsStop(f) == f.field_header = 0
FieldType(f) == f.field_header % 16
FieldDeltaShort(f) == (f.field_header \div 16) % 16
HasExtendedDelta(f) == FieldDeltaShort(f) = 0

\* compact_field, seq: field_header, extended_delta if not is_stop and
\* has_extended_delta, value if not is_stop
ParseFields(b, pos, acc) ==
    IF pos > Len(b) THEN [ok |-> FALSE, pos |-> 0, v |-> <<>>]
    ELSE LET h == [field_header |-> b[pos], extended_delta |-> 0, value |-> NilValue]
         IN  IF IsStop(h) THEN [ok |-> TRUE, pos |-> pos + 1, v |-> Append(acc, h)]
             ELSE LET x == IF HasExtendedDelta(h) THEN ParseVarintZ(b, pos + 1)
                           ELSE [ok |-> TRUE, pos |-> pos + 1, n |-> 0]
                  IN  IF ~x.ok THEN [ok |-> FALSE, pos |-> 0, v |-> <<>>]
                      ELSE LET w == ParseValue(b, x.pos, FieldType(h))
                           IN  IF ~w.ok THEN [ok |-> FALSE, pos |-> 0, v |-> <<>>]
                               ELSE ParseFields(b, w.pos,
                                        Append(acc, [h EXCEPT !.extended_delta = x.n,
                                                              !.value = w.v]))

\* parseCompactStructFromBytes: (st, consumed, err); every parse error of the
\* generated reader is an end-of-stream error.
parseCompactStructFromBytes(b) ==
    LET r == ParseStruct(b, 1)
    IN  IF ~r.ok THEN [err |-> TRUE, consumed |-> 0, st |-> NilValue]
        ELSE [err |-> FALSE, consumed |-> r.pos - 1, st |-> r.v]

----------------------------------------------------------------------------
(* thrift_compact_decode.go: the logical fields of a struct.               *)

\* FieldID with a short delta taken as the id itself
FieldIDWithoutPrev(f, prevID) ==
    IF HasExtendedDelta(f) THEN ToInt16(f.extended_delta)
    ELSE ToInt16(FieldDeltaShort(f))

\* thriftFields, loop body: the id of field f after a field of id prevID.
\* An extended delta is the absolute id, converted by int16(v); a short delta
\* is added to prevID in int16 arithmetic.
FieldID(f, prevID) ==
    IF HasExtendedDelta(f) THEN ToInt16(f.extended_delta)
    ELSE ToInt16(prevID + ToInt16(FieldDeltaShort(f)))

\* thriftFields without "if isStop { break }"
RECURSIVE thriftFieldsKeepStop(_, _, _, _)
thriftFieldsKeepStop(fs, i, prevID, out) ==
    IF i > Len(fs) THEN out
    ELSE LET id == FieldID(fs[i], prevID)
         IN  thriftFieldsKeepStop(fs, i + 1, id,
                 Append(out, [ID |-> id, Type |-> FieldType(fs[i]), Val |-> fs[i].value]))

RECURSIVE thriftFieldsFrom(_, _, _, _)
thriftFieldsFrom(fs, i, prevID, out) ==
    IF i > Len(fs) THEN out
    ELSE IF IsStop(fs[i]) THEN out
    ELSE LET id == FieldID(fs[i], prevID)
         IN  thriftFieldsFrom(fs, i + 1, id,
                 Append(out, [ID |-> id, Type |-> FieldType(fs[i]), Val |-> fs[i].value]))

\* thriftFields: no instance of the generated reader fails and an extended
\* delta is present exactly when has_extended_delta, so err is always nil.
thriftFields(st) == [err |-> FALSE, out |-> thriftFieldsFrom(st.fields, 1, 0, <<>>)]

\* thriftI32: (value, ok, err); ok iff the value is non-nil and holds an i32
thriftI32(v) ==
    IF v.vt = -1 \/ v.vt # 5 THEN [v |-> 0, ok |-> FALSE, err |-> FALSE]
    ELSE [v |-> v.n, ok |-> TRUE, err |-> FALSE]

thriftI64(v) ==
    IF v.vt = -1 \/ v.vt # 6 THEN [v |-> 0, ok |-> FALSE, err |-> FALSE]
    ELSE [v |-> v.n, ok |-> TRUE, err |-> FALSE]

thriftString(v) ==
    IF v.vt = -1 \/ v.vt # 8 THEN [v |-> <<>>, ok |-> FALSE]
    ELSE [v |-> v.bin, ok |-> TRUE]

thriftStruct(v) ==
    IF v.vt = -1 \/ v.vt # 12 THEN [v |-> NilValue, ok |-> FALSE]
    ELSE [v |-> v, ok |-> TRUE]

\* thriftList: the list member, else the set member
thriftList(v) ==
    IF v.vt = -1 THEN [v |-> NilValue, ok |-> FALSE]
    ELSE IF v.vt = 9 THEN [v |-> v, ok |-> TRUE]
    ELSE IF v.vt = 10 THEN [v |-> v, ok |-> TRUE]
    ELSE [v |-> NilValue, ok |-> FALSE]

----------------------------------------------------------------------------
(* parquet_types.go: the metadata model.  A pointer field is a record      *)
(* [set, v]: set = FALSE is the nil pointer.  A slice is a sequence.       *)

Unset == [set |-> FALSE, v |-> 0]
Ptr(x) == [set |-> TRUE, v |-> x]

ZeroSchemaElement ==
    [Type |-> 0, TypeLength |-> Unset, RepetitionType |-> Unset, Name |-> <<>>,
     NumChildren |-> Unset, ConvertedType |-> Unset, Scale |-> Unset,
     Precision |-> Unset, FieldID |-> Unset]

ZeroColumnMetaData ==
    [Type |-> 0, Encodings |-> <<>>, PathInSchema |-> <<>>, Codec |-> 0,
     NumValues |-> 0, TotalUncompressedSize |-> 0, TotalCompressedSize |-> 0,
     DataPageOffset |-> 0, DictionaryPageOffset |-> Unset]

\* ColumnChunk.MetaData is a pointer: HasMetaData = FALSE is nil
ZeroColumnChunk ==
    [FilePath |-> <<>>, FileOffset |-> 0, HasMetaData |-> FALSE,
     MetaData |-> ZeroColumnMetaData]

ZeroRowGroup ==
    [Columns |-> <<>>, TotalByteSize |-> 0, NumRows |-> 0, FileOffset |-> 0,
     TotalCompressedSize |-> 0]

ZeroFileMetadata == [Version |-> 0, Schema |-> <<>>, NumRows |-> 0, RowGroups |-> <<>>]

----------------------------------------------------------------------------
(* thrift_compact_decode.go: the metadata mapper.  Every decoder returns   *)
(* [err, out]; out is the zero value when err.  A loop over fields or      *)
(* elements carries [err, out] and does nothing more once err is set: that *)
(* is the loop's "return ..., err".                                        *)

OK(out) == [err |-> FALSE, out |-> out]
Fail(zero) == [err |-> TRUE, out |-> zero]

\* "if v, ok, err := thriftI32(f.Val); err == nil && ok { out.X = v }
\*  else if err != nil { return err }", for a plain and for a pointer field
SetPlain(out, name, r, zero) ==
    IF ~r.err /\ r.ok THEN OK([out EXCEPT ![name] = r.v])
    ELSE IF r.err THEN Fail(zero)
    ELSE OK(out)

SetPtr(out, name, r, zero) ==
    IF ~r.err /\ r.ok THEN OK([out EXCEPT ![name] = Ptr(r.v)])
    ELSE IF r.err THEN Fail(zero)
    ELSE OK(out)

\* a list-valued case: r is what the loop over lst.Elements left
SetList(out, name, r, zero) ==
    IF r.err THEN Fail(zero) ELSE OK([out EXCEPT ![name] = r.out])

\* "x, err := decode...(st); if err != nil { return ..., err };
\*  out = append(out, x)"
AppendDecoded(acc, r) ==
    IF r.err THEN Fail(<<>>) ELSE OK(Append(acc.out, r.out))

\* SchemaElementField with an error in place of "default: // ignore"
SchemaElementFieldStrict(out, f) ==
    IF f.ID \in 1..9 THEN OK(out) ELSE Fail(ZeroSchemaElement)

\* decodeSchemaElement, the switch on f.ID
SchemaElementField(out, f) ==
    CASE f.ID = 1 -> SetPlain(out, "Type", thriftI32(f.Val), ZeroSchemaElement)
      [] f.ID = 2 -> SetPtr(out, "TypeLength", thriftI32(f.Val), ZeroSchemaElement)
      [] f.ID = 3 -> SetPtr(out, "RepetitionType", thriftI32(f.Val), ZeroSchemaElement)
      [] f.ID = 4 -> IF thriftString(f.Val).ok
                     THEN OK([out EXCEPT !.Name = thriftString(f.Val).v])
                     ELSE OK(out)
      [] f.ID = 5 -> SetPtr(out, "NumChildren", thriftI32(f.Val), ZeroSchemaElement)
      [] f.ID = 6 -> SetPtr(out, "ConvertedType", thriftI32(f.Val), ZeroSchemaElement)
      [] f.ID = 7 -> SetPtr(out, "Scale", thriftI32(f.Val), ZeroSchemaElement)
      [] f.ID = 8 -> SetPtr(out, "Precision", thriftI32(f.Val), ZeroSchemaElement)
      [] f.ID = 9 -> SetPtr(out, "FieldID", thriftI32(f.Val), ZeroSchemaElement)
      [] OTHER -> OK(out)

RECURSIVE SchemaElementFrom(_, _, _)
SchemaElementFrom(fs, i, acc) ==
    IF i > Len(fs) \/ acc.err THEN acc
    ELSE SchemaElementFrom(fs, i + 1, SchemaElementField(acc.out, fs[i]))

SchemaElementOf(fields) ==
    IF fields.err THEN Fail(ZeroSchemaElement)
    ELSE SchemaElementFrom(fields.out, 1, OK(ZeroSchemaElement))

decodeSchemaElement(st) == SchemaElementOf(thriftFields(st))

\* decodeColumnMetaData, case 2: the elements that hold an i32
EncodingsElem(acc, r) ==
    IF ~r.err /\ r.ok THEN OK(Append(acc.out, r.v))
    ELSE IF r.err THEN Fail(<<>>)
    ELSE acc

RECURSIVE EncodingsFrom(_, _, _)
EncodingsFrom(elems, i, acc) ==
    IF i > Len(elems) \/ acc.err THEN acc
    ELSE EncodingsFrom(elems, i + 1, EncodingsElem(acc, thriftI32(elems[i])))

\* decodeColumnMetaData, case 3: the elements that hold a string
RECURSIVE PathFrom(_, _, _)
PathFrom(elems, i, acc) ==
    IF i > Len(elems) THEN acc
    ELSE PathFrom(elems, i + 1,
             IF thriftString(elems[i]).ok
             THEN OK(Append(acc.out, thriftString(elems[i]).v))
             ELSE acc)

\* "lst, ok := thriftList(f.Val); if !ok || lst == nil { continue }"
NoList(v) == ~thriftList(v).ok \/ thriftList(v).v.vt = -1

\* decodeColumnMetaData, the switch on f.ID
ColumnMetaDataField(out, f) ==
    CASE f.ID = 1 -> SetPlain(out, "Type", thriftI32(f.Val), ZeroColumnMetaData)
      [] f.ID = 2 ->
            IF NoList(f.Val) THEN OK(out)
            ELSE SetList(out, "Encodings",
                         EncodingsFrom(thriftList(f.Val).v.elems, 1, OK(out.Encodings)),
                         ZeroColumnMetaData)
      [] f.ID = 3 ->
            IF NoList(f.Val) THEN OK(out)
            ELSE SetList(out, "PathInSchema",
                         PathFrom(thriftList(f.Val).v.elems, 1, OK(out.PathInSchema)),
                         ZeroColumnMetaData)
      [] f.ID = 4 -> SetPlain(out, "Codec", thriftI32(f.Val), ZeroColumnMetaData)
      [] f.ID = 5 -> SetPlain(out, "NumValues", thriftI64(f.Val), ZeroColumnMetaData)
      [] f.ID = 6 ->
            SetPlain(out, "TotalUncompressedSize", thriftI64(f.Val), ZeroColumnMetaData)
      [] f.ID = 7 ->
            SetPlain(out, "TotalCompressedSize", thriftI64(f.Val), ZeroColumnMetaData)
      [] f.ID = 9 -> SetPlain(out, "DataPageOffset", thriftI64(f.Val), ZeroColumnMetaData)
      [] f.ID = 11 ->
            SetPtr(out, "DictionaryPageOffset", thriftI64(f.Val), ZeroColumnMetaData)
      [] OTHER -> OK(out)

RECURSIVE ColumnMetaDataFrom(_, _, _)
ColumnMetaDataFrom(fs, i, acc) ==
    IF i > Len(fs) \/ acc.err THEN acc
    ELSE ColumnMetaDataFrom(fs, i + 1, ColumnMetaDataField(acc.out, fs[i]))

ColumnMetaDataOf(fields) ==
    IF fields.err THEN Fail(ZeroColumnMetaData)
    ELSE ColumnMetaDataFrom(fields.out, 1, OK(ZeroColumnMetaData))

decodeColumnMetaData(st) == ColumnMetaDataOf(thriftFields(st))

\* decodeColumnChunk, case 3: "out.MetaData = md" unless err
SetMetaData(out, md) ==
    IF md.err THEN Fail(ZeroColumnChunk)
    ELSE OK([out EXCEPT !.HasMetaData = TRUE, !.MetaData = md.out])

\* decodeColumnChunk, the switch on f.ID
ColumnChunkField(out, f) ==
    CASE f.ID = 1 ->
            IF thriftString(f.Val).ok /\ thriftString(f.Val).v # <<>>
            THEN OK([out EXCEPT !.FilePath = <<thriftString(f.Val).v>>])
            ELSE OK(out)
      [] f.ID = 2 -> SetPlain(out, "FileOffset", thriftI64(f.Val), ZeroColumnChunk)
      [] f.ID = 3 ->
            IF ~thriftStruct(f.Val).ok THEN OK(out)
            ELSE SetMetaData(out, decodeColumnMetaData(thriftStruct(f.Val).v))
      [] OTHER -> OK(out)

RECURSIVE ColumnChunkFrom(_, _, _)
ColumnChunkFrom(fs, i, acc) ==
    IF i > Len(fs) \/ acc.err THEN acc
    ELSE ColumnChunkFrom(fs, i + 1, ColumnChunkField(acc.out, fs[i]))

ColumnChunkOf(fields) ==
    IF fields.err THEN Fail(ZeroColumnChunk)
    ELSE ColumnChunkFrom(fields.out, 1, OK(ZeroColumnChunk))

decodeColumnChunk(st) == ColumnChunkOf(thriftFields(st))

\* decodeRowGroup, case 1: the elements that hold a struct, decoded
RECURSIVE ColumnsFrom(_, _, _)
ColumnsFrom(elems, i, acc) ==
    IF i > Len(elems) \/ acc.err THEN acc
    ELSE ColumnsFrom(elems, i + 1,
             IF ~thriftStruct(elems[i]).ok THEN acc
             ELSE AppendDecoded(acc, decodeColumnChunk(thriftStruct(elems[i]).v)))

\* decodeRowGroup, the switch on f.ID
RowGroupField(out, f) ==
    CASE f.ID = 1 ->
            IF NoList(f.Val) THEN OK(out)
            ELSE SetList(out, "Columns",
                         ColumnsFrom(thriftList(f.Val).v.elems, 1, OK(out.Columns)),
                         ZeroRowGroup)
      [] f.ID = 2 -> SetPlain(out, "TotalByteSize", thriftI64(f.Val), ZeroRowGroup)
      [] f.ID = 3 -> SetPlain(out, "NumRows", thriftI64(f.Val), ZeroRowGroup)
      [] f.ID = 5 -> SetPlain(out, "FileOffset", thriftI64(f.Val), ZeroRowGroup)
      [] f.ID = 6 -> SetPlain(out, "TotalCompressedSize", thriftI64(f.Val), ZeroRowGroup)
      [] OTHER -> OK(out)

RECURSIVE RowGroupFrom(_, _, _)
RowGroupFrom(fs, i, acc) ==
    IF i > Len(fs) \/ acc.err THEN acc
    ELSE RowGroupFrom(fs, i + 1, RowGroupField(acc.out, fs[i]))

RowGroupOf(fields) ==
    IF fields.err THEN Fail(ZeroRowGroup)
    ELSE RowGroupFrom(fields.out, 1, OK(ZeroRowGroup))

decodeRowGroup(st) == RowGroupOf(thriftFields(st))

\* decodeFileMetaData, case 2: the elements that hold a struct, decoded
RECURSIVE SchemaFrom(_, _, _)
SchemaFrom(elems, i, acc) ==
    IF i > Len(elems) \/ acc.err THEN acc
    ELSE SchemaFrom(elems, i + 1,
             IF ~thriftStruct(elems[i]).ok THEN acc
             ELSE AppendDecoded(acc, decodeSchemaElement(thriftStruct(elems[i]).v)))

\* decodeFileMetaData, case 4
RECURSIVE RowGroupsFrom(_, _, _)
RowGroupsFrom(elems, i, acc) ==
    IF i > Len(elems) \/ acc.err THEN acc
    ELSE RowGroupsFrom(elems, i + 1,
             IF ~thriftStruct(elems[i]).ok THEN acc
             ELSE AppendDecoded(acc, decodeRowGroup(thriftStruct(elems[i]).v)))

\* decodeFileMetaData, the switch on f.ID
FileMetaDataField(out, f) ==
    CASE f.ID = 1 -> SetPlain(out, "Version", thriftI32(f.Val), ZeroFileMetadata)
      [] f.ID = 2 ->
            IF NoList(f.Val) THEN OK(out)
            ELSE SetList(out, "Schema",
                         SchemaFrom(thriftList(f.Val).v.elems, 1, OK(out.Schema)),
                         ZeroFileMetadata)
      [] f.ID = 3 -> SetPlain(out, "NumRows", thriftI64(f.Val), ZeroFileMetadata)
      [] f.ID = 4 ->
            IF NoList(f.Val) THEN OK(out)
            ELSE SetList(out, "RowGroups",
                         RowGroupsFrom(thriftList(f.Val).v.elems, 1, OK(out.RowGroups)),
                         ZeroFileMetadata)
      [] OTHER -> OK(out)

RECURSIVE FileMetaDataFrom(_, _, _)
FileMetaDataFrom(fs, i, acc) ==
    IF i > Len(fs) \/ acc.err THEN acc
    ELSE FileMetaDataFrom(fs, i + 1, FileMetaDataField(acc.out, fs[i]))

FileMetaDataOf(fields) ==
    IF fields.err THEN Fail(ZeroFileMetadata)
    ELSE FileMetaDataFrom(fields.out, 1, OK(ZeroFileMetadata))

decodeFileMetaData(st) == FileMetaDataOf(thriftFields(st))

\* decodePageHeader's named results
ZeroPageHeader ==
    [pageType |-> 0, uncompressedSize |-> 0, compressedSize |-> 0, numValues |-> 0,
     encoding |-> 0]

\* "v, ok, e := thriftI32(f.Val); if e != nil { return 0, ..., e };
\*  if ok { x = v }"
SetResult(out, name, r) ==
    IF r.err THEN Fail(ZeroPageHeader)
    ELSE IF r.ok THEN OK([out EXCEPT ![name] = r.v])
    ELSE OK(out)

\* decodePageHeader, case 5: the switch on df.ID
DataPageHeaderField(out, df) ==
    CASE df.ID = 1 -> SetResult(out, "numValues", thriftI32(df.Val))
      [] df.ID = 2 -> SetResult(out, "encoding", thriftI32(df.Val))
      [] OTHER -> OK(out)

RECURSIVE DataPageHeaderFrom(_, _, _)
DataPageHeaderFrom(fs, i, acc) ==
    IF i > Len(fs) \/ acc.err THEN acc
    ELSE DataPageHeaderFrom(fs, i + 1, DataPageHeaderField(acc.out, fs[i]))

DataPageHeaderOf(dFields, out) ==
    IF dFields.err THEN Fail(ZeroPageHeader)
    ELSE DataPageHeaderFrom(dFields.out, 1, OK(out))

\* decodePageHeader, the switch on f.ID
PageHeaderField(out, f) ==
    CASE f.ID = 1 -> SetResult(out, "pageType", thriftI32(f.Val))
      [] f.ID = 2 -> SetResult(out, "uncompressedSize", thriftI32(f.Val))
      [] f.ID = 3 -> SetResult(out, "compressedSize", thriftI32(f.Val))
      [] f.ID = 5 ->
            IF ~thriftStruct(f.Val).ok THEN OK(out)
            ELSE DataPageHeaderOf(thriftFields(thriftStruct(f.Val).v), out)
      [] OTHER -> OK(out)

RECURSIVE PageHeaderFrom(_, _, _)
PageHeaderFrom(fs, i, acc) ==
    IF i > Len(fs) \/ acc.err THEN acc
    ELSE PageHeaderFrom(fs, i + 1, PageHeaderField(acc.out, fs[i]))

PageHeaderOf(fields) ==
    IF fields.err THEN Fail(ZeroPageHeader)
    ELSE PageHeaderFrom(fields.out, 1, OK(ZeroPageHeader))

decodePageHeader(st) == PageHeaderOf(thriftFields(st))

----------------------------------------------------------------------------
(* Byte slices.  Offsets are Go's (0-based): data[off] is data[off + 1]    *)
(* here.                                                                   *)

\* data[a:b] and data[a:]
Slice(data, a, b) == SubSeq(data, a + 1, b)

SliceFrom(data, a) == SubSeq(data, a + 1, Len(data))

\* binary.LittleEndian.Uint32(data[off:]).  A value of 2^31 or more is
\* given as 2^31 - 1: it is only ever compared with the length of a buffer.
Uint32(data, off) ==
    IF data[off + 4] >= 128 THEN 2147483647
    ELSE data[off + 1] + 256 * data[off + 2] + 65536 * data[off + 3]
            + 16777216 * data[off + 4]

\* the four bytes read as an unsigned number: the conversion int32(...) left out
Int32NoSign(data, off) ==
    data[off + 1] + 256 * data[off + 2] + 65536 * data[off + 3]
        + 16777216 * (data[off + 4] % 128)

\* int32(binary.LittleEndian.Uint32(data[off:]))
Int32(data, off) ==
    data[off + 1] + 256 * data[off + 2] + 65536 * data[off + 3]
        + 16777216 * (IF data[off + 4] >= 128 THEN data[off + 4] - 256
                      ELSE data[off + 4])

----------------------------------------------------------------------------
(* Decoded values ([]interface{}).  vt is the physical type of the value,  *)
(* n the number of an int32 or int64 and bin the bytes of a string.  An    *)
(* int64 outside the 32-bit range, a float32 and a float64 are held as     *)
(* their bits, in bin, little-endian.                                      *)

MkInt32(n) == [vt |-> 1, n |-> n, bin |-> <<>>]

MkInt64(n) == [vt |-> 2, n |-> n, bin |-> <<>>]

\* int64(binary.LittleEndian.Uint64(data[off:]))
Int64Value(data, off) ==
    IF \/ data[off + 4] < 128 /\ \A k \in 5..8 : data[off + k] = 0
       \/ data[off + 4] >= 128 /\ \A k \in 5..8 : data[off + k] = 255
    THEN MkInt64(Int32(data, off))
    ELSE [vt |-> 2, n |-> 0, bin |-> Slice(data, off, off + 8)]

\* math.Float32frombits, math.Float64frombits, string(...)
MkBits(t, bytes) == [vt |-> t, n |-> 0, bin |-> bytes]

----------------------------------------------------------------------------
(* plain_decode.go.  A value decoder returns [values, err, panic].         *)

Values(vals) == [values |-> vals, err |-> FALSE, panic |-> FALSE]

ValuesErr(vals) == [values |-> vals, err |-> TRUE, panic |-> FALSE]

Panic == [values |-> <<>>, err |-> FALSE, panic |-> TRUE]

\* decodePlainValues, the loop: i, offset and values are its variables
RECURSIVE PlainLoop(_, _, _, _, _, _)
PlainLoop(data, dataType, numValues, i, offset, vals) ==
    IF ~(i < numValues /\ offset < Len(data)) THEN Values(vals)
    ELSE CASE dataType = 1 ->
                IF offset + 4 <= Len(data)
                THEN PlainLoop(data, dataType, numValues, i + 1, offset + 4,
                               Append(vals, MkInt32(Int32(data, offset))))
                ELSE PlainLoop(data, dataType, numValues, i + 1, offset, vals)
           [] dataType = 2 ->
                IF offset + 8 <= Len(data)
                THEN PlainLoop(data, dataType, numValues, i + 1, offset + 8,
                               Append(vals, Int64Value(data, offset)))
                ELSE PlainLoop(data, dataType, numValues, i + 1, offset, vals)
           [] dataType = 4 ->
                IF offset + 4 <= Len(data)
                THEN PlainLoop(data, dataType, numValues, i + 1, offset + 4,
                               Append(vals, MkBits(4, Slice(data, offset, offset + 4))))
                ELSE PlainLoop(data, dataType, numValues, i + 1, offset, vals)
           [] dataType = 5 ->
                IF offset + 8 <= Len(data)
                THEN PlainLoop(data, dataType, numValues, i + 1, offset + 8,
                               Append(vals, MkBits(5, Slice(data, offset, offset + 8))))
                ELSE PlainLoop(data, dataType, numValues, i + 1, offset, vals)
           [] dataType = 6 ->
                IF offset + 4 <= Len(data)
                THEN IF Uint32(data, offset) <= Len(data) - (offset + 4)
                     THEN PlainLoop(data, dataType, numValues, i + 1,
                                    offset + 4 + Uint32(data, offset),
                                    Append(vals,
                                           MkBits(6, Slice(data, offset + 4,
                                                    offset + 4 + Uint32(data, offset)))))
                     ELSE PlainLoop(data, dataType, numValues, i + 1, offset + 4, vals)
                ELSE PlainLoop(data, dataType, numValues, i + 1, offset, vals)
           [] OTHER -> ValuesErr(vals)

decodePlainValues(data, dataType, numValues) ==
    PlainLoop(data, dataType, numValues, 0, 0, <<>>)

----------------------------------------------------------------------------
(* rle_decoder.go.                                                         *)

\* binary.Uvarint(buf) as [u, n, big]: n as Go returns it (0: buf ends
\* inside the varint, below 0: more than 64 bits); u is the low 28 bits of
\* the value and big says that a higher bit is set.
RECURSIVE UvarintFrom(_, _, _, _)
UvarintFrom(buf, i, x, big) ==
    IF i >= Len(buf) THEN [u |-> 0, n |-> 0, big |-> FALSE]
    ELSE IF i = 10 THEN [u |-> 0, n |-> -(i + 1), big |-> FALSE]
    ELSE IF buf[i + 1] < 128
         THEN IF i = 9 /\ buf[i + 1] > 1
              THEN [u |-> 0, n |-> -(i + 1), big |-> FALSE]
              ELSE [u |-> IF i < 4 THEN x + buf[i + 1] * Pow2(7 * i) ELSE x,
                    n |-> i + 1,
                    big |-> big \/ (i >= 4 /\ buf[i + 1] # 0)]
         ELSE UvarintFrom(buf, i + 1,
                          IF i < 4 THEN x + (buf[i + 1] % 128) * Pow2(7 * i) ELSE x,
                          big \/ (i >= 4 /\ buf[i + 1] % 128 # 0))

Uvarint(buf) == UvarintFrom(buf, 0, 0, FALSE)

\* maxSupportedValueCount, "count > 16*1024*1024"
TooManyValues(h) == h.big \/ h.u \div 2 > 16 * 1024 * 1024

\* a value read from its first byte only
BitPackedValueOneByte(src, i, bitWidth) ==
    (src[(i * bitWidth) \div 8 + 1] \div Pow2((i * bitWidth) % 8))
        % Pow2(Min(bitWidth, 8 - ((i * bitWidth) % 8)))

\* decodeBitPackedBytes, the body of the loop: value number i
BitPackedValue(src, i, bitWidth) ==
    LET byteIndex == (i * bitWidth) \div 8
        bitIndex == (i * bitWidth) % 8
        bitsToRead == Min(bitWidth, 8 - bitIndex)
        bitsRemaining == bitWidth - bitsToRead
        first == (src[byteIndex + 1] \div Pow2(bitIndex)) % Pow2(bitsToRead)
    IN  IF bitsRemaining > 0 /\ byteIndex + 1 < Len(src)
        THEN (first + (src[byteIndex + 2] % Pow2(bitsRemaining)) * Pow2(bitsToRead)) % 256
        ELSE first % 256

RECURSIVE BitPackedFrom(_, _, _, _, _)
BitPackedFrom(src, count, bitWidth, i, dst) ==
    IF i >= count \/ (i * bitWidth) \div 8 >= Len(src) THEN dst
    ELSE BitPackedFrom(src, count, bitWidth, i + 1,
                       Append(dst, BitPackedValue(src, i, bitWidth)))

decodeBitPackedBytes(src, count, bitWidth) ==
    IF bitWidth = 0 THEN [k \in 1..count |-> 0]
    ELSE BitPackedFrom(src, count, bitWidth, 0, <<>>)

\* the run appended once, whatever count says
RLERunOnce(dst, word, count, numValues) == Append(dst, word)

\* "for k := uint(0); k < count && len(dst) < numValues; k++ {
\*      dst = append(dst, word) }"
RLERun(dst, word, count, numValues) ==
    dst \o [k \in 1..Min(count, numValues - Len(dst)) |-> word]

\* a level decoder returns [levels, bytesRead, made, err, panic].  made is
\* len(dst) at the return, before the truncation to numValues: the values
\* the call has materialised.  The model holds of dst the first numValues
\* values, which is what the truncation leaves.
Levels(dst, bytesRead, made) ==
    [levels |-> dst, bytesRead |-> bytesRead, made |-> made, err |-> FALSE,
     panic |-> FALSE]

LevelsErr(dst, bytesRead, made) ==
    [levels |-> dst, bytesRead |-> bytesRead, made |-> made, err |-> TRUE,
     panic |-> FALSE]

\* "dst := make([]byte, 0, numValues)" with numValues < 0
LevelsPanic ==
    [levels |-> <<>>, bytesRead |-> 0, made |-> 0, err |-> FALSE, panic |-> TRUE]

\* "if len(dst) > numValues { dst = dst[:numValues] }"
Truncate(dst, numValues) ==
    IF Len(dst) > numValues THEN SubSeq(dst, 1, numValues) ELSE dst

\* "decoded := decodeBitPackedBytes(src[i:j], count, bitWidth)
\*  dst = append(dst, decoded...)": of the count values of the block, the
\* first room ones, for which dst has room below numValues
KeptBitPacked(src, count, bitWidth, room) ==
    decodeBitPackedBytes(src, Min(count, room), bitWidth)

\* decodeRLEBytes, the loop; h is the block header read at src[i:]
RECURSIVE RLEBytesLoop(_, _, _, _, _, _)
RLEBytesBlock(src, numValues, bitWidth, i, dst, made, h) ==
    IF h.n = 0 THEN LevelsErr(dst, 0, made)
    ELSE IF h.n < 0 THEN LevelsErr(dst, 0, made)
    ELSE IF TooManyValues(h) THEN LevelsErr(dst, 0, made)
    ELSE IF h.u % 2 = 1
         THEN IF i + h.n + ((h.u \div 2) * 8 * bitWidth + 7) \div 8 > Len(src)
              THEN LevelsErr(dst, 0, made)
              ELSE RLEBytesLoop(src, numValues, bitWidth,
                       i + h.n + ((h.u \div 2) * 8 * bitWidth + 7) \div 8,
                       dst \o KeptBitPacked(
                                  Slice(src, i + h.n,
                                        i + h.n + ((h.u \div 2) * 8 * bitWidth + 7) \div 8),
                                  (h.u \div 2) * 8, bitWidth, numValues - Len(dst)),
                       made + (h.u \div 2) * 8)
         ELSE IF bitWidth # 0 /\ i + h.n + 1 > Len(src)
              THEN LevelsErr(dst, 0, made)
              ELSE IF bitWidth # 0
                   THEN RLEBytesLoop(src, numValues, bitWidth, i + h.n + 1,
                                     RLERun(dst, src[i + h.n + 1], h.u \div 2, numValues),
                                     made + Min(h.u \div 2, numValues - made))
                   ELSE RLEBytesLoop(src, numValues, bitWidth, i + h.n,
                                     RLERun(dst, 0, h.u \div 2, numValues),
                                     made + Min(h.u \div 2, numValues - made))

RLEBytesLoop(src, numValues, bitWidth, i, dst, made) ==
    IF i < Len(src) /\ made < numValues
    THEN RLEBytesBlock(src, numValues, bitWidth, i, dst, made,
                       Uvarint(SliceFrom(src, i)))
    ELSE Levels(Truncate(dst, numValues), 0, made)

\* decodeRLEBytes without the test of the bit width
decodeRLEBytesAnyWidth(src, numValues, bitWidth) ==
    IF numValues < 0 THEN LevelsPanic
    ELSE RLEBytesLoop(src, numValues, bitWidth, 0, <<>>, 0)

decodeRLEBytes(src, numValues, bitWidth) ==
    IF bitWidth > 8 THEN LevelsErr(<<>>, 0, 0)
    ELSE IF numValues < 0 THEN LevelsPanic
    ELSE RLEBytesLoop(src, numValues, bitWidth, 0, <<>>, 0)

\* decodeRLEBytesWithOffset, the loop
RECURSIVE RLEOffsetLoop(_, _, _, _, _, _, _)
RLEOffsetBlock(src, numValues, bitWidth, i, bytesRead, dst, made, h) ==
    IF h.n = 0 THEN LevelsErr(dst, bytesRead, made)
    ELSE IF h.n < 0 THEN LevelsErr(dst, bytesRead, made)
    ELSE IF TooManyValues(h) THEN LevelsErr(dst, bytesRead + h.n, made)
    ELSE IF h.u % 2 = 1
         THEN IF i + h.n + ((h.u \div 2) * 8 * bitWidth + 7) \div 8 > Len(src)
              THEN LevelsErr(dst, bytesRead + h.n, made)
              ELSE RLEOffsetLoop(src, numValues, bitWidth,
                       i + h.n + ((h.u \div 2) * 8 * bitWidth + 7) \div 8,
                       bytesRead + h.n + ((h.u \div 2) * 8 * bitWidth + 7) \div 8,
                       dst \o KeptBitPacked(
                                  Slice(src, i + h.n,
                                        i + h.n + ((h.u \div 2) * 8 * bitWidth + 7) \div 8),
                                  (h.u \div 2) * 8, bitWidth, numValues - Len(dst)),
                       made + (h.u \div 2) * 8)
         ELSE IF bitWidth # 0 /\ i + h.n + 1 > Len(src)
              THEN LevelsErr(dst, bytesRead + h.n, made)
              ELSE IF bitWidth # 0
                   THEN RLEOffsetLoop(src, numValues, bitWidth, i + h.n + 1,
                                      bytesRead + h.n + 1,
                                      RLERun(dst, src[i + h.n + 1], h.u \div 2, numValues),
                                      made + Min(h.u \div 2, numValues - made))
                   ELSE RLEOffsetLoop(src, numValues, bitWidth, i + h.n,
                                      bytesRead + h.n,
                                      RLERun(dst, 0, h.u \div 2, numValues),
                                      made + Min(h.u \div 2, numValues - made))

\* the loop without "len(dst) < numValues" and without the break: every
\* block of src is read
RLEOffsetLoopToEnd(src, numValues, bitWidth, i, bytesRead, dst, made) ==
    IF i < Len(src)
    THEN RLEOffsetBlock(src, numValues, bitWidth, i, bytesRead, dst, made,
                        Uvarint(SliceFrom(src, i)))
    ELSE Levels(Truncate(dst, numValues), bytesRead, made)

\* the "break" once len(dst) >= numValues is the loop condition's second half
RLEOffsetLoop(src, numValues, bitWidth, i, bytesRead, dst, made) ==
    IF i < Len(src) /\ made < numValues
    THEN RLEOffsetBlock(src, numValues, bitWidth, i, bytesRead, dst, made,
                        Uvarint(SliceFrom(src, i)))
    ELSE Levels(Truncate(dst, numValues), bytesRead, made)

decodeRLEBytesWithOffset(src, numValues, bitWidth) ==
    IF bitWidth > 8 THEN LevelsErr(<<>>, 0, 0)
    ELSE IF numValues < 0 THEN LevelsPanic
    ELSE RLEOffsetLoop(src, numValues, bitWidth, 0, 0, <<>>, 0)

\* decodeRLELevels returning the bytes behind the section on an error of
\* decodeRLEBytes as well
RLELevelsCut(data, encodedLength, r) ==
    [levels |-> IF r.err \/ r.panic THEN <<>> ELSE r.levels,
     remaining |-> SliceFrom(data, 4 + encodedLength),
     err |-> r.err /\ ~r.panic, panic |-> r.panic]

\* decodeRLELevels returns [levels, remaining, err, panic]; r is what
\* decodeRLEBytes returned for data[4 : 4+encodedLength]
RLELevelsOf(data, encodedLength, r) ==
    IF r.panic
    THEN [levels |-> <<>>, remaining |-> data, err |-> FALSE, panic |-> TRUE]
    ELSE IF r.err
    THEN [levels |-> <<>>, remaining |-> data, err |-> TRUE, panic |-> FALSE]
    ELSE [levels |-> r.levels, remaining |-> SliceFrom(data, 4 + encodedLength),
          err |-> FALSE, panic |-> FALSE]

decodeRLELevels(data, numValues, bitWidth) ==
    IF Len(data) < 4
    THEN [levels |-> <<>>, remaining |-> data, err |-> TRUE, panic |-> FALSE]
    ELSE IF Uint32(data, 0) > Len(data) - 4
    THEN [levels |-> <<>>, remaining |-> data, err |-> TRUE, panic |-> FALSE]
    ELSE RLELevelsOf(data, Uint32(data, 0),
                     decodeRLEBytes(Slice(data, 4, 4 + Uint32(data, 0)),
                                    numValues, bitWidth))

----------------------------------------------------------------------------
(* delta_decode.go.  A read of the simpleVarintReader returns              *)
(* [v, big, offset, err]: the value, the reader's offset after the read.   *)
(* The uint64 result is held as its low 28 bits, v, and as big, which says *)
(* that a bit above them is set; the buffers of the delta decoder hold no  *)
(* varint of more than four bytes.                                         *)

\* "result |= uint64(b&0x7F) << shift" on [v, big]: of a group shifted by 63
\* one bit is left in the 64 bits
OrShifted(result, group, shift) ==
    IF shift < 28 THEN [v |-> result.v + group * Pow2(shift), big |-> result.big]
    ELSE IF shift < 63 THEN [v |-> result.v, big |-> result.big \/ group # 0]
    ELSE [v |-> result.v, big |-> result.big \/ group % 2 = 1]

\* what a read returns: the result r, the offset behind it
ReadOK(r, offset) == [v |-> r.v, big |-> r.big, offset |-> offset, err |-> FALSE]

ReadErr(offset) == [v |-> 0, big |-> FALSE, offset |-> offset, err |-> TRUE]

\* readVarintUnsigned, the loop: result and shift are its variables
RECURSIVE ReadVarintFrom(_, _, _, _)
ReadVarintFrom(data, offset, result, shift) ==
    IF offset >= Len(data) THEN ReadErr(offset)
    ELSE IF data[offset + 1] < 128
         THEN ReadOK(OrShifted(result, data[offset + 1], shift), offset + 1)
         ELSE IF shift + 7 >= 64
              THEN ReadErr(offset + 1)
              ELSE ReadVarintFrom(data, offset + 1,
                                  OrShifted(result, data[offset + 1] % 128, shift),
                                  shift + 7)

readVarintUnsigned(data, offset) ==
    ReadVarintFrom(data, offset, [v |-> 0, big |-> FALSE], 0)

\* "decoded := int64(result >> 1); if (result & 1) != 0 { decoded = -decoded }"
SignOf(r) ==
    IF r.err THEN r
    ELSE [r EXCEPT !.v = IF r.v % 2 # 0 THEN -(r.v \div 2) ELSE r.v \div 2]

readVarint(data, offset) == SignOf(readVarintUnsigned(data, offset))

\* the reads of decodeDeltaBinaryPacked one after another: r is the read
\* before, and its error has been returned
ThenUnsigned(data, r) == IF r.err THEN r ELSE readVarintUnsigned(data, r.offset)

ThenSigned(data, r) == IF r.err THEN r ELSE readVarint(data, r.offset)

\* decodeDeltaBinaryPacked, the loop; r is the delta read at offset
RECURSIVE DeltaLoop(_, _, _, _, _)
DeltaNext(data, numValues, currentValue, vals, r) ==
    IF r.err THEN Values(vals)
    ELSE DeltaLoop(data, numValues, r.offset, currentValue + r.v,
                   Append(vals, MkInt64(currentValue + r.v)))

DeltaLoop(data, numValues, offset, currentValue, vals) ==
    IF Len(vals) < numValues /\ offset < Len(data) - 1
    THEN DeltaNext(data, numValues, currentValue, vals, readVarint(data, offset))
    ELSE Values(vals)

\* decodeDeltaBinaryPacked from "firstValue, err := reader.readVarint()"
DeltaValues(data, numValues, first) ==
    IF first.err THEN ValuesErr(<<>>)
    ELSE IF numValues < 0 THEN Panic
    ELSE DeltaLoop(data, numValues, first.offset, first.v, <<MkInt64(first.v)>>)

decodeDeltaBinaryPacked(data, dataType, numValues) ==
    IF Len(data) < 5 THEN ValuesErr(<<>>)
    ELSE DeltaValues(data, numValues,
             ThenSigned(data,
                 ThenUnsigned(data,
                     ThenUnsigned(data, readVarintUnsigned(data, 0)))))

----------------------------------------------------------------------------
(* page_decode.go.  The level sections are taken off pageData one after    *)
(* the other; a step returns [data, panic].                                *)

PageData(data) == [data |-> data, panic |-> FALSE]

PagePanic == [data |-> <<>>, panic |-> TRUE]

\* "for _, level := range defLevels { if level > maxDefinitionLevel ..."
ValidLevels(levels, maxDefinitionLevel) ==
    \A k \in 1..Len(levels) : levels[k] <= maxDefinitionLevel

\* lines 12-15: r is what decodeRLELevels returned
RepetitionStripped(data, r) ==
    IF r.panic THEN PagePanic
    ELSE IF ~r.err THEN PageData(r.remaining)
    ELSE PageData(data)

\* lines 19-22
RequiredStripped(data, r) ==
    IF r.panic THEN PagePanic
    ELSE IF ~r.err /\ Len(r.levels) > 0 THEN PageData(r.remaining)
    ELSE PageData(data)

\* lines 27-39
LengthPrefixedStripped(data, r, maxDefinitionLevel) ==
    IF r.panic THEN PagePanic
    ELSE IF ~r.err /\ Len(r.levels) > 0 /\ ValidLevels(r.levels, maxDefinitionLevel)
    THEN PageData(r.remaining)
    ELSE PageData(data)

\* lines 41-53: r is what decodeRLEBytesWithOffset returned
BareStripped(data, numValues, r, maxDefinitionLevel) ==
    IF r.panic THEN PagePanic
    ELSE IF /\ ~r.err
            /\ Len(r.levels) > 0
            /\ Len(r.levels) <= numValues + 10
            /\ ValidLevels(r.levels, maxDefinitionLevel)
            /\ r.bytesRead > 0
            /\ r.bytesRead < Len(data)
    THEN PageData(SliceFrom(data, r.bytesRead))
    ELSE PageData(data)

\* lines 10-16
AfterRepetition(data, numValues, repetitionType) ==
    IF repetitionType.set /\ repetitionType.v = 2
    THEN RepetitionStripped(data, decodeRLELevels(data, numValues, 1))
    ELSE PageData(data)

\* lines 18-56: p is what AfterRepetition left
AfterDefinition(p, numValues, repetitionType, maxDefinitionLevel) ==
    IF p.panic THEN p
    ELSE IF repetitionType.set /\ repetitionType.v = 0
    THEN RequiredStripped(p.data, decodeRLELevels(p.data, numValues, 1))
    ELSE IF maxDefinitionLevel > 0 /\ Len(p.data) >= 4
    THEN IF /\ Uint32(p.data, 0) > 0
            /\ Uint32(p.data, 0) < Len(p.data)
            /\ Uint32(p.data, 0) < 10000
         THEN LengthPrefixedStripped(p.data,
                  decodeRLELevels(p.data, numValues, maxDefinitionLevel),
                  maxDefinitionLevel)
         ELSE BareStripped(p.data, numValues,
                  decodeRLEBytesWithOffset(p.data, numValues, maxDefinitionLevel),
                  maxDefinitionLevel)
    ELSE p

\* lines 58-65: p is what AfterDefinition left
DecodeEncoding(p, dataType, encoding, numValues) ==
    IF p.panic THEN Panic
    ELSE CASE encoding = 0 -> decodePlainValues(p.data, dataType, numValues)
           [] encoding = 5 -> decodeDeltaBinaryPacked(p.data, dataType, numValues)
           [] OTHER -> decodePlainValues(p.data, dataType, numValues)

parseDataPageWithEncoding(data, dataType, encoding, numValues, repetitionType, maxLevel) ==
    DecodeEncoding(
        AfterDefinition(AfterRepetition(data, numValues, repetitionType),
                        numValues, repetitionType, maxLevel),
        dataType, encoding, numValues)

----------------------------------------------------------------------------
(* Compression dispatch.  snappy.Decode reads the raw block format: the    *)
(* decoded length as a uvarint, then literal and copy elements.  Modelled  *)
(* are the literal with its length in the tag and the copies with a one-   *)
(* and a two-byte offset; the inputs of the model hold no other element    *)
(* (one is refused).  A decompressor returns [data, err].                  *)

Decompressed(data) == [data |-> data, err |-> FALSE]

ErrCorrupt == [data |-> <<>>, err |-> TRUE]

\* the copy element: length bytes from offset bytes back, one at a time
RECURSIVE SnappyCopy(_, _, _)
SnappyCopy(dst, offset, length) ==
    IF length = 0 THEN dst
    ELSE SnappyCopy(Append(dst, dst[Len(dst) - offset + 1]), offset, length - 1)

RECURSIVE SnappyFrom(_, _, _, _)
SnappyCopyAt(src, next, dLen, dst, offset, length) ==
    IF offset <= 0 \/ Len(dst) < offset \/ length > dLen - Len(dst) THEN ErrCorrupt
    ELSE SnappyFrom(src, next, dLen, SnappyCopy(dst, offset, length))

SnappyFrom(src, s, dLen, dst) ==
    IF s >= Len(src)
    THEN IF Len(dst) # dLen THEN ErrCorrupt ELSE Decompressed(dst)
    ELSE CASE src[s + 1] % 4 = 0 /\ src[s + 1] \div 4 < 60 ->
                IF \/ src[s + 1] \div 4 + 1 > dLen - Len(dst)
                   \/ src[s + 1] \div 4 + 1 > Len(src) - (s + 1)
                THEN ErrCorrupt
                ELSE SnappyFrom(src, s + 1 + src[s + 1] \div 4 + 1, dLen,
                                dst \o Slice(src, s + 1, s + 1 + src[s + 1] \div 4 + 1))
           [] src[s + 1] % 4 = 1 ->
                IF s + 2 > Len(src) THEN ErrCorrupt
                ELSE SnappyCopyAt(src, s + 2, dLen, dst,
                                  (src[s + 1] \div 32) * 256 + src[s + 2],
                                  4 + ((src[s + 1] \div 4) % 8))
           [] src[s + 1] % 4 = 2 ->
                IF s + 3 > Len(src) THEN ErrCorrupt
                ELSE SnappyCopyAt(src, s + 3, dLen, dst,
                                  src[s + 2] + 256 * src[s + 3],
                                  1 + src[s + 1] \div 4)
           [] OTHER -> ErrCorrupt

\* h is the decoded length, read by binary.Uvarint
SnappyBlock(src, h) ==
    IF h.n <= 0 \/ h.big THEN ErrCorrupt
    ELSE SnappyFrom(src, h.n, h.u, <<>>)

snappyDecode(src) == SnappyBlock(src, Uvarint(src))

decompressData(data, codec) ==
    CASE codec = 0 -> Decompressed(data)
      [] codec = 1 -> snappyDecode(data)
      [] OTHER -> [data |-> <<>>, err |-> TRUE]

----------------------------------------------------------------------------
(* parseCompactStructFromBufio.  rest is what the reader has not yet       *)
(* handed out: Peek(n) returns its first n bytes, or all of it and io.EOF. *)
(* Every error of the parser is an end of input.                           *)

HeaderErr == [err |-> TRUE, consumed |-> 0, st |-> NilValue]

\* lines 57-76: p is what parseCompactStructFromBytes returned for the
\* peeked bytes
RECURSIVE PeekLoop(_, _, _)
PeekParsed(rest, peekN, maxPeek, p) ==
    IF ~p.err
    THEN IF p.consumed <= 0 THEN HeaderErr ELSE p
    ELSE IF peekN >= maxPeek THEN HeaderErr
    ELSE PeekLoop(rest, peekN * 2, maxPeek)

\* lines 43-56
PeekLoop(rest, peekN, maxPeek) ==
    IF Min(Min(peekN, maxPeek), Len(rest)) = 0 THEN HeaderErr
    ELSE PeekParsed(rest, Min(peekN, maxPeek), maxPeek,
             parseCompactStructFromBytes(
                 SubSeq(rest, 1, Min(Min(peekN, maxPeek), Len(rest)))))

parseCompactStructFromBufio(rest, maxPeek) ==
    PeekLoop(rest, 256, IF maxPeek <= 0 THEN 64 * 1024 ELSE maxPeek)

\* The same function one iteration at a time (SpecPeek).

\* a window that is not held below maxPeek
WindowNoCeiling(peekN, maxPeek) == peekN

\* "if peekN > maxPeek { peekN = maxPeek }"
Window(peekN, maxPeek) == Min(peekN, maxPeek)

\* "b, err := r.Peek(peekN)": the first peekN bytes, or all there are
Peeked(rest, peekN) == SubSeq(rest, 1, Min(peekN, Len(rest)))

\* "peekN *= 2"
Grow(peekN) == peekN * 2

\* a Discard that leaves the reader where it is
DiscardNothing(pos, consumed) == pos

\* "r.Discard(consumed)" of bytes that were peeked: the position behind them
Discard(pos, consumed) == pos + consumed

----------------------------------------------------------------------------
(* readColumnValues.                                                       *)

\* the page-count ceiling
maxPages == 100

\* "for pagesRead < maxPages && totalValuesRead < int(chunk.MetaData.NumValues)",
\* without the ceiling
LoopContinuesNoCeiling(pages, total, md) == total < md.NumValues

\* "for pagesRead < maxPages && totalValuesRead < int(chunk.MetaData.NumValues)"
LoopContinues(pages, total, md) == pages < maxPages /\ total < md.NumValues

\* lines 557-562
pageStartOffset(md) ==
    IF md.DictionaryPageOffset.set /\ md.DictionaryPageOffset.v # 0
    THEN md.DictionaryPageOffset.v
    ELSE md.DataPageOffset

\* io.NewSectionReader(file, pageStartOffset, TotalCompressedSize): the
\* bytes of the file it reads
Section(bytes, md) ==
    SubSeq(bytes, pageStartOffset(md) + 1,
           Min(pageStartOffset(md) + md.TotalCompressedSize, Len(bytes)))

\* lines 614-619
maxDefinitionLevel(sch) ==
    IF sch.RepetitionType.set /\ sch.RepetitionType.v = 0 THEN 1
    ELSE IF sch.RepetitionType.set /\ sch.RepetitionType.v = 1 THEN 1
    ELSE 0

\* One iteration of the page loop leaves [brk, panic, consumed, isData,
\* headerErr, decompressErr, valuesErr, pageValues]: brk is a break before
\* "pagesRead++", consumed the bytes taken from the reader, and the three
\* errors are the iteration's err after parseCompactStructFromBufio or
\* decodePageHeader, after decompressData and after
\* parseDataPageWithEncoding.
NoPage ==
    [brk |-> FALSE, panic |-> FALSE, consumed |-> 0, isData |-> FALSE,
     headerErr |-> FALSE, decompressErr |-> FALSE, valuesErr |-> FALSE,
     pageValues |-> <<>>]

\* lines 621-625: v is what parseDataPageWithEncoding returned
PageDecoded(consumed, decompressErr, v) ==
    IF v.panic THEN [NoPage EXCEPT !.panic = TRUE, !.isData = TRUE,
                                   !.decompressErr = decompressErr]
    ELSE [NoPage EXCEPT !.consumed = consumed, !.isData = TRUE,
                        !.decompressErr = decompressErr, !.valuesErr = v.err,
                        !.pageValues = v.values]

\* lines 609-621: d is what decompressData returned
PageDecompressed(compressedData, consumed, sch, numValues, encoding, d) ==
    PageDecoded(consumed, d.err,
        parseDataPageWithEncoding(IF d.err THEN compressedData ELSE d.data,
                                  sch.Type, encoding, numValues,
                                  sch.RepetitionType, maxDefinitionLevel(sch)))

\* lines 598-626: compressedData is what io.ReadFull left in the buffer
PageBody(compressedData, consumed, md, sch, ph, numValues, encoding) ==
    IF ph.pageType = 0
    THEN PageDecompressed(compressedData, consumed + Len(compressedData), sch,
                          numValues, encoding,
                          decompressData(compressedData, md.Codec))
    ELSE [NoPage EXCEPT !.consumed = consumed + Len(compressedData)]

\* lines 581-606: ph is what decodePageHeader returned, body the bytes
\* behind the header
PageHeaderDecoded(body, consumed, md, sch, ph) ==
    IF ph.err THEN [NoPage EXCEPT !.brk = TRUE, !.headerErr = TRUE]
    ELSE IF ph.out.compressedSize <= 0 THEN [NoPage EXCEPT !.brk = TRUE]
    ELSE PageBody(SubSeq(body, 1, Min(ph.out.compressedSize, Len(body))),
                  consumed, md, sch, ph.out,
                  IF ph.out.numValues = 0 THEN md.NumValues ELSE ph.out.numValues,
                  IF ph.out.encoding = 0 /\ Len(md.Encodings) > 0
                  THEN md.Encodings[1] ELSE ph.out.encoding)

\* lines 573-581: h is what parseCompactStructFromBufio returned
PageHeaderParsed(rest, md, sch, h) ==
    IF h.err THEN [NoPage EXCEPT !.brk = TRUE, !.headerErr = TRUE]
    ELSE PageHeaderDecoded(SliceFrom(rest, h.consumed), h.consumed, md, sch,
                           decodePageHeader(h.st))

\* the body of the page loop, lines 573-632
ReadPage(rest, md, sch) ==
    PageHeaderParsed(rest, md, sch, parseCompactStructFromBufio(rest, 64 * 1024))

----------------------------------------------------------------------------
(* Inputs.  A byte string is a concatenation of tokens; the tokens are     *)
(* chosen so that the strings hold short and extended field ids, STOP      *)
(* bytes in every place, truncated structs and every wire type the mapper  *)
(* tests for.                                                              *)

RECURSIVE Concat(_)
Concat(ss) == IF ss = <<>> THEN <<>> ELSE Head(ss) \o Concat(Tail(ss))

SeqsUpTo(S, n) == UNION {[1..k -> S] : k \in 0..n}

\* SpecFields: boolean fields (no payload) of short delta 1, 2, 3, 5 and 15,
\* of extended id 20, 32767, 40000 and -3, a STOP byte, and an i32 field
FieldTokens ==
    { <<0>>, <<17>>, <<33>>, <<49>>, <<81>>, <<241>>,
      <<1, 40>>, <<1, 254, 255, 3>>, <<1, 128, 241, 4>>, <<1, 5>>,
      <<21, 2>> }

FieldInputs == {Concat(ts) : ts \in SeqsUpTo(FieldTokens, MaxFieldTokens)}

\* SpecMapper: a field is a header of short delta d and wire type t, then
\* the payload: i32 0 and 1, i64 0 and 3, binary "" and "A", a struct
\* {1: i32 1, 4: i32 1}, a list of one struct {1: i32 1}, a list of one i32,
\* the boolean true
Payloads ==
    { <<5, <<0>>>>, <<5, <<2>>>>, <<6, <<0>>>>, <<6, <<6>>>>,
      <<8, <<0>>>>, <<8, <<1, 65>>>>,
      <<12, <<21, 2, 53, 2, 0>>>>, <<9, <<28, 21, 2, 0>>>>, <<9, <<21, 2>>>>,
      <<1, <<>>>> }

Deltas == {1, 2, 3, 11}

MapperTokens == {<<d * 16 + p[1]>> \o p[2] : d \in Deltas, p \in Payloads}

\* every struct ends with STOP; one input is cut short
MapperInputs ==
    {Concat(ts) \o <<0>> : ts \in SeqsUpTo(MapperTokens, MaxMapperFields)}
        \cup {<<21>>}

----------------------------------------------------------------------------
(* SpecFields and SpecMapper: parseCompactStructFromBytes on the input,    *)
(* then thriftFields or one decoder of the mapper on the struct.           *)

NoParse == [err |-> TRUE, consumed |-> 0, st |-> NilValue]

NoCall ==
    [fn |-> "", dataType |-> 0, encoding |-> 0, repetitionType |-> Unset,
     maxDefinitionLevel |-> 0, bitWidth |-> 0, codec |-> 0]

IdleThrift ==
    /\ tpc = "idle"
    /\ tBytes = <<>>
    /\ tParse = NoParse
    /\ tKind = ""
    /\ tOut = [err |-> FALSE]

IdleDecode ==
    /\ dpc = "idle"
    /\ dData = <<>>
    /\ dNum = 0
    /\ dCall = NoCall
    /\ dOut = [err |-> FALSE]

IdleRead ==
    /\ rpc = "idle"
    /\ file = <<>>
    /\ chunk = ZeroColumnChunk
    /\ schema = ZeroSchemaElement
    /\ rpos = 0
    /\ values = <<>>
    /\ pagesRead = 0
    /\ totalValuesRead = 0
    /\ page = NoPage
    /\ calls = <<>>

InitFields ==
    /\ tpc = "start"
    /\ tBytes \in FieldInputs
    /\ tParse = NoParse
    /\ tKind = ""
    /\ tOut = [err |-> FALSE]
    /\ IdleDecode
    /\ IdleRead

InitMapper ==
    /\ tpc = "start"
    /\ tBytes \in MapperInputs
    /\ tParse = NoParse
    /\ tKind = ""
    /\ tOut = [err |-> FALSE]
    /\ IdleDecode
    /\ IdleRead

ParseStep ==
    /\ tpc = "start"
    /\ tParse' = parseCompactStructFromBytes(tBytes)
    /\ tpc' = "parsed"
    /\ UNCHANGED <<tBytes, tKind, tOut, decodeVars, readVars>>

Apply(kind, result) ==
    /\ tpc = "parsed"
    /\ ~tParse.err
    /\ tKind' = kind
    /\ tOut' = result
    /\ tpc' = "mapped"
    /\ UNCHANGED <<tBytes, tParse, decodeVars, readVars>>

ThriftFieldsStep == Apply("thriftFields", thriftFields(tParse.st))

FileMetaDataStep == Apply("FileMetaData", decodeFileMetaData(tParse.st))

SchemaElementStep == Apply("SchemaElement", decodeSchemaElement(tParse.st))

RowGroupStep == Apply("RowGroup", decodeRowGroup(tParse.st))

ColumnChunkStep == Apply("ColumnChunk", decodeColumnChunk(tParse.st))

ColumnMetaDataStep == Apply("ColumnMetaData", decodeColumnMetaData(tParse.st))

PageHeaderStep == Apply("PageHeader", decodePageHeader(tParse.st))

NextFields == ParseStep \/ ThriftFieldsStep

NextMapper ==
    \/ ParseStep
    \/ FileMetaDataStep
    \/ SchemaElementStep
    \/ RowGroupStep
    \/ ColumnChunkStep
    \/ ColumnMetaDataStep
    \/ PageHeaderStep

SpecFields == InitFields /\ [][NextFields]_vars

SpecMapper == InitMapper /\ [][NextMapper]_vars

----------------------------------------------------------------------------
(* SpecDecode: one call of a level or value decoder.  The buffer and       *)
(* numValues are drawn at the start, the other arguments at the call.      *)

\* a length prefix of 2, the int32 7, four zero bytes, an RLE run of one 1
\* and of one 5, a bit-packed group of eight 1-bit values, the string "A",
\* the header of a delta block, a lone 0xff
DecodeTokens ==
    { <<2, 0, 0, 0>>, <<7, 0, 0, 0>>, <<0, 0, 0, 0>>, <<2, 1>>, <<2, 5>>,
      <<3, 165>>, <<1, 0, 0, 0, 65>>, <<128, 1, 4, 2, 2, 4>>, <<255>> }

DecodeInputs == {Concat(ts) : ts \in SeqsUpTo(DecodeTokens, MaxDecodeTokens)}

NumValuesChoices == -1..3

PhysicalTypes == 0..7

\* the types a page is decoded as: three with a PLAIN decoder, one without
PageTypes == {0, 1, 2, 6}

\* PLAIN, DELTA_BINARY_PACKED, RLE_DICTIONARY, BYTE_STREAM_SPLIT
EncodingChoices == {0, 5, 8, 9}

RepetitionChoices == {Unset, Ptr(0), Ptr(1), Ptr(2)}

BitWidthChoices == {0, 1, 2, 3, 8, 9}

InitDecode ==
    /\ dpc = "start"
    /\ dData \in DecodeInputs
    /\ dNum \in NumValuesChoices
    /\ dCall = NoCall
    /\ dOut = [err |-> FALSE]
    /\ IdleThrift
    /\ IdleRead

Call(call, result) ==
    /\ dpc = "start"
    /\ dCall' = call
    /\ dOut' = result
    /\ dpc' = "done"
    /\ UNCHANGED <<dData, dNum, thriftVars, readVars>>

PlainStep ==
    \E t \in PhysicalTypes :
        Call([NoCall EXCEPT !.fn = "decodePlainValues", !.dataType = t],
             decodePlainValues(dData, t, dNum))

DeltaStep ==
    \E t \in {1, 2} :
        Call([NoCall EXCEPT !.fn = "decodeDeltaBinaryPacked", !.dataType = t],
             decodeDeltaBinaryPacked(dData, t, dNum))

BitPackedStep ==
    /\ dNum >= 0
    /\ \E w \in BitWidthChoices \ {9} :
           Call([NoCall EXCEPT !.fn = "decodeBitPackedBytes", !.bitWidth = w],
                [levels |-> decodeBitPackedBytes(dData, dNum, w), err |-> FALSE])

RLEBytesStep ==
    \E w \in BitWidthChoices :
        Call([NoCall EXCEPT !.fn = "decodeRLEBytes", !.bitWidth = w],
             decodeRLEBytes(dData, dNum, w))

RLEOffsetStep ==
    \E w \in BitWidthChoices :
        Call([NoCall EXCEPT !.fn = "decodeRLEBytesWithOffset", !.bitWidth = w],
             decodeRLEBytesWithOffset(dData, dNum, w))

RLELevelsStep ==
    \E w \in BitWidthChoices :
        Call([NoCall EXCEPT !.fn = "decodeRLELevels", !.bitWidth = w],
             decodeRLELevels(dData, dNum, w))

DataPageStep ==
    \E t \in PageTypes, e \in EncodingChoices, r \in RepetitionChoices,
       m \in {0, 1} :
        Call([NoCall EXCEPT !.fn = "parseDataPageWithEncoding", !.dataType = t,
                            !.encoding = e, !.repetitionType = r,
                            !.maxDefinitionLevel = m],
             parseDataPageWithEncoding(dData, t, e, dNum, r, m))

DecompressStep ==
    \E c \in {0, 1, 2} :
        Call([NoCall EXCEPT !.fn = "decompressData", !.codec = c],
             decompressData(dData, c))

NextDecode ==
    \/ PlainStep
    \/ DeltaStep
    \/ BitPackedStep
    \/ RLEBytesStep
    \/ RLEOffsetStep
    \/ RLELevelsStep
    \/ DataPageStep
    \/ DecompressStep

SpecDecode == InitDecode /\ [][NextDecode]_vars

----------------------------------------------------------------------------
(* SpecPlain: one call of decodePlainValues on a buffer of whole and cut   *)
(* values.                                                                 *)

\* the int32 7, -2 and -2^31, the string "A" behind its length, a lone byte
PlainTokens ==
    { <<7, 0, 0, 0>>, <<254, 255, 255, 255>>, <<0, 0, 0, 128>>,
      <<1, 0, 0, 0, 65>>, <<255>> }

PlainInputs == {Concat(ts) : ts \in SeqsUpTo(PlainTokens, MaxPlainTokens)}

PlainNumValues == -1..4

InitPlain ==
    /\ dpc = "start"
    /\ dData \in PlainInputs
    /\ dNum \in PlainNumValues
    /\ dCall = NoCall
    /\ dOut = [err |-> FALSE]
    /\ IdleThrift
    /\ IdleRead

NextPlain == PlainStep

SpecPlain == InitPlain /\ [][NextPlain]_vars

----------------------------------------------------------------------------
(* SpecLevels: one call of a hybrid level decoder on a sequence of blocks. *)

\* an RLE run of four 5, of one 1 and of none; a bit-packed group of the
\* values 0..7 at three bits, and no group; a bit-packed block of 2^21 + 1
\* groups; an RLE run of 2^24 + 1 values; a header that is cut
LevelTokens ==
    { <<8, 5>>, <<2, 1>>, <<0>>, <<3, 136, 198, 250>>, <<1>>,
      <<131, 128, 128, 2>>, <<130, 128, 128, 16>>, <<255>> }

LevelInputs == {Concat(ts) : ts \in SeqsUpTo(LevelTokens, MaxLevelTokens)}

LevelNumValues == {-1, 0, 1, 3, 4, 8, 9}

InitLevels ==
    /\ dpc = "start"
    /\ dData \in LevelInputs
    /\ dNum \in LevelNumValues
    /\ dCall = NoCall
    /\ dOut = [err |-> FALSE]
    /\ IdleThrift
    /\ IdleRead

NextLevels ==
    \/ BitPackedStep
    \/ RLEBytesStep
    \/ RLEOffsetStep

SpecLevels == InitLevels /\ [][NextLevels]_vars

----------------------------------------------------------------------------
(* SpecVarint: one read of a varint at the start of a buffer, by each of   *)
(* the program's varint decoders.  A read is given as [v, big, offset,     *)
(* err]: the low 28 bits of the value (with their sign, for a zigzag       *)
(* read), whether a higher bit is set, the bytes consumed.                 *)

\* the base-128 little-endian encoding of u >= 0
RECURSIVE Leb128(_)
Leb128(u) == IF u < 128 THEN <<u>> ELSE <<128 + (u % 128)>> \o Leb128(u \div 128)

\* the zigzag varint of v
ZigZagBytes(v) == Leb128(IF v >= 0 THEN 2 * v ELSE -2 * v - 1)

SignedChoices == {-70000, -1000, -65, -64, -3, -2, -1, 0, 1, 2, 3, 63, 64, 1000, 70000}

\* n bytes with bit 7 set, then a last byte: varints of 1..MaxVarintBytes
\* bytes, with a tenth byte of data bits 0, 1, 2 and 127
LongVarints ==
    { [k \in 1..n |-> c] \o <<last>> :
          c \in {128, 255}, n \in 0..(MaxVarintBytes - 1), last \in {0, 1, 2, 127} }

\* varints the buffer ends in
CutVarints == { [k \in 1..n |-> 255] : n \in 0..MaxVarintBytes }

VarintInputs ==
    {ZigZagBytes(v) : v \in SignedChoices} \cup {<<u>> : u \in 0..4}
        \cup LongVarints \cup CutVarints

InitVarint ==
    /\ dpc = "start"
    /\ dData \in VarintInputs
    /\ dNum = 0
    /\ dCall = NoCall
    /\ dOut = [err |-> FALSE]
    /\ IdleThrift
    /\ IdleRead

ReadVarintUnsignedStep ==
    Call([NoCall EXCEPT !.fn = "readVarintUnsigned"], readVarintUnsigned(dData, 0))

ReadVarintStep ==
    Call([NoCall EXCEPT !.fn = "readVarint"], readVarint(dData, 0))

\* the block header of the level decoders: binary.Uvarint, and an error
\* returned for n = 0 and for n < 0
UvarintStep ==
    \E h \in {Uvarint(dData)} :
        Call([NoCall EXCEPT !.fn = "Uvarint"],
             [v |-> h.u, big |-> h.big, offset |-> IF h.n > 0 THEN h.n ELSE 0,
              err |-> h.n <= 0])

\* varint_u and varint_z: a parse that fails is an end of stream
KaitaiRead(r) ==
    [v |-> r.n, big |-> r.big, offset |-> IF r.ok THEN r.pos - 1 ELSE 0, err |-> ~r.ok]

VarintUStep ==
    Call([NoCall EXCEPT !.fn = "varint_u"], KaitaiRead(ParseVarintU(dData, 1)))

VarintZStep ==
    Call([NoCall EXCEPT !.fn = "varint_z"], KaitaiRead(ParseVarintZ(dData, 1)))

NextVarint ==
    \/ ReadVarintUnsignedStep
    \/ ReadVarintStep
    \/ UvarintStep
    \/ VarintUStep
    \/ VarintZStep

SpecVarint == InitVarint /\ [][NextVarint]_vars

----------------------------------------------------------------------------
(* Spec: readColumnValues on a file, one step per iteration of the page    *)
(* loop.  A file is a sequence of pages; a page is a page header and the   *)
(* bytes behind it.                                                        *)

\* the zigzag varint of v, for -64 <= v < 64: one byte
ZZ(v) == IF v >= 0 THEN 2 * v ELSE -2 * v - 1

\* the bytes of a PageHeader {1: type, 2: uncompressed_page_size,
\* 3: compressed_page_size, 5: {1: num_values, 2: encoding}}
PageHeaderBytes(pageType, uncompressedSize, compressedSize, numValues, encoding) ==
    <<21, ZZ(pageType), 21, ZZ(uncompressedSize), 21, ZZ(compressedSize),
      44, 21, ZZ(numValues), 21, ZZ(encoding), 0, 0>>

DataPage(numValues, encoding, payload) ==
    PageHeaderBytes(0, Len(payload), Len(payload), numValues, encoding) \o payload

\* a PLAIN page of the int32 7
OnePage == DataPage(1, 0, <<7, 0, 0, 0>>)

\* a dictionary page of one byte
DictionaryPage == PageHeaderBytes(2, 1, 1, 0, 0) \o <<9>>

\* a dictionary page without entries: no byte behind the header
EmptyDictionaryPage == PageHeaderBytes(2, 0, 0, 0, 0)

\* OnePage; a page of three int32; DictionaryPage; EmptyDictionaryPage; a
\* header cut short; a
\* header of compressed size 0; a BYTE_STREAM_SPLIT page; a page that
\* declares -1 values; a page with a definition level in front of its
\* value; a DELTA_BINARY_PACKED page of 1 and 3; a page whose bytes are the
\* Snappy block of the int32 7
Pages ==
    { OnePage,
      DataPage(3, 0, <<1, 0, 0, 0, 2, 0, 0, 0, 3, 0, 0, 0>>),
      DictionaryPage,
      EmptyDictionaryPage,
      <<21>>,
      PageHeaderBytes(0, 0, 0, 1, 0),
      DataPage(1, 9, <<7, 0, 0, 0>>),
      DataPage(-1, 0, <<0, 0, 0, 0>>),
      DataPage(1, 0, <<2, 0, 0, 0, 2, 1, 7, 0, 0, 0>>),
      DataPage(2, 5, <<128, 1, 4, 2, 2, 4, 0>>),
      DataPage(1, 0, <<4, 12, 7, 0, 0, 0>>) }

ShortFiles == {Concat(ps) : ps \in SeqsUpTo(Pages, MaxFilePages)}

RECURSIVE Repeat(_, _)
Repeat(p, k) == IF k = 0 THEN <<>> ELSE p \o Repeat(p, k - 1)

\* more pages than the loop will read
LongFiles == {Repeat(p, LongFilePages) : p \in {OnePage, DictionaryPage}}

\* an uncompressed column of two values at the start of the file
BaseMetaData ==
    [ZeroColumnMetaData EXCEPT !.Type = 1, !.NumValues = 2,
                               !.TotalCompressedSize = 100000]

BaseSchema == [ZeroSchemaElement EXCEPT !.Type = 1]

MetaDataChoices ==
    {[BaseMetaData EXCEPT !.Codec = c] : c \in {0, 1, 2}}
        \cup {[BaseMetaData EXCEPT !.NumValues = n] : n \in {0, 5}}
        \cup {[BaseMetaData EXCEPT !.Encodings = <<5>>],
              [BaseMetaData EXCEPT !.TotalCompressedSize = 18],
              [BaseMetaData EXCEPT !.DictionaryPageOffset = Ptr(0)],
              [BaseMetaData EXCEPT !.DictionaryPageOffset = Ptr(17)],
              [BaseMetaData EXCEPT !.DataPageOffset = 17],
              [BaseMetaData EXCEPT !.DictionaryPageOffset = Ptr(0),
                                   !.DataPageOffset = 17]}

SchemaChoices ==
    {[BaseSchema EXCEPT !.RepetitionType = r] : r \in RepetitionChoices}
        \cup {[BaseSchema EXCEPT !.Type = t] : t \in {0, 6}}

Chunk(md) == [ZeroColumnChunk EXCEPT !.HasMetaData = TRUE, !.MetaData = md]

Init ==
    /\ rpc = "call"
    /\ \/ /\ file \in ShortFiles
          /\ \/ chunk \in {Chunk(md) : md \in MetaDataChoices} /\ schema = BaseSchema
             \/ chunk = Chunk(BaseMetaData) /\ schema \in SchemaChoices
             \/ chunk = ZeroColumnChunk /\ schema = BaseSchema
       \/ /\ file \in LongFiles
          /\ chunk = Chunk([BaseMetaData EXCEPT !.NumValues = 1000])
          /\ schema = BaseSchema
    /\ rpos = 0
    /\ values = <<>>
    /\ pagesRead = 0
    /\ totalValuesRead = 0
    /\ page = NoPage
    /\ calls = <<>>
    /\ IdleThrift
    /\ IdleDecode

\* lines 553-572: the nil check, and the loop condition for the first time
CallStep ==
    /\ rpc = "call"
    /\ rpc' = IF ~chunk.HasMetaData THEN "failed"
              ELSE IF LoopContinues(0, 0, chunk.MetaData) THEN "loop"
              ELSE "returned"
    /\ UNCHANGED <<file, chunk, schema, rpos, values, pagesRead, totalValuesRead,
                   page, calls, thriftVars, decodeVars>>

\* the end of an iteration: r is what its body left
EndPage(r) ==
    /\ page' = r
    /\ IF r.panic
       THEN /\ rpc' = "panic"
            /\ UNCHANGED <<rpos, values, pagesRead, totalValuesRead>>
       ELSE IF r.brk
       THEN /\ rpc' = "returned"
            /\ UNCHANGED <<rpos, values, pagesRead, totalValuesRead>>
       ELSE /\ rpos' = rpos + r.consumed
            /\ values' = IF ~r.valuesErr /\ Len(r.pageValues) > 0
                         THEN values \o r.pageValues ELSE values
            /\ totalValuesRead' = IF ~r.valuesErr /\ Len(r.pageValues) > 0
                                  THEN totalValuesRead + Len(r.pageValues)
                                  ELSE totalValuesRead
            /\ pagesRead' = pagesRead + 1
            /\ rpc' = IF totalValuesRead' >= chunk.MetaData.NumValues THEN "returned"
                      ELSE IF LoopContinues(pagesRead', totalValuesRead', chunk.MetaData)
                      THEN "loop"
                      ELSE "returned"
    /\ UNCHANGED <<file, chunk, schema, calls, thriftVars, decodeVars>>

\* one iteration of the page loop
PageStep ==
    /\ rpc = "loop"
    /\ \E rest \in {SliceFrom(Section(file, chunk.MetaData), rpos)} :
           EndPage(ReadPage(rest, chunk.MetaData, schema))

Next == CallStep \/ PageStep

Spec == Init /\ [][Next]_vars

\* readColumnValues is between its call and its return
Running == rpc \in {"call", "loop"}

\* The goroutine is not suspended for ever: weak fairness of Next.
\* CallStep and PageStep have no guard but rpc, and each changes rpc or
\* pagesRead, so that ENABLED <<Next>>_vars is Running and WF_vars(Next) is
Fairness == []<>(~Running) \/ []<><<Next>>_vars

FairSpec == Spec /\ Fairness

----------------------------------------------------------------------------
(* SpecTwo: two calls of readColumnValues on chunks of one file, their     *)
(* steps interleaved.  The file is shared; calls[i] holds what call i has  *)
(* of its own: the arguments chunk and schema, passed by value, and the    *)
(* locals rpos (of its section reader and rbuf), values, pagesRead and     *)
(* totalValuesRead, with rpc the place the call is at.                     *)

\* the variables of every call taken from the first one
OwnOfFirst(cs, i) == cs[1]

\* the arguments and locals of call i
Own(cs, i) == cs[i]

\* a call before its first step
NewCall(ch, sch) ==
    [rpc |-> "call", chunk |-> ch, schema |-> sch, rpos |-> 0, values |-> <<>>,
     pagesRead |-> 0, totalValuesRead |-> 0]

\* lines 553-572 on the variables c of a call: CallStep
CallOf(c) ==
    [c EXCEPT !.rpc = IF ~c.chunk.HasMetaData THEN "failed"
                      ELSE IF LoopContinues(0, 0, c.chunk.MetaData) THEN "loop"
                      ELSE "returned"]

\* the values and the count behind an iteration that left r
ValuesOf(c, r) ==
    IF ~r.valuesErr /\ Len(r.pageValues) > 0
    THEN [c EXCEPT !.values = @ \o r.pageValues,
                   !.totalValuesRead = @ + Len(r.pageValues),
                   !.rpos = @ + r.consumed, !.pagesRead = @ + 1]
    ELSE [c EXCEPT !.rpos = @ + r.consumed, !.pagesRead = @ + 1]

\* lines 628-633 on the variables c of a call
LoopOf(c) ==
    [c EXCEPT !.rpc = IF c.totalValuesRead >= c.chunk.MetaData.NumValues
                      THEN "returned"
                      ELSE IF LoopContinues(c.pagesRead, c.totalValuesRead,
                                            c.chunk.MetaData)
                      THEN "loop"
                      ELSE "returned"]

\* the end of an iteration on the variables c of a call: EndPage
PageOf(c, r) ==
    IF r.panic THEN [c EXCEPT !.rpc = "panic"]
    ELSE IF r.brk THEN [c EXCEPT !.rpc = "returned"]
    ELSE LoopOf(ValuesOf(c, r))

\* the body of the page loop for the call with the variables c
ReadPageOf(bytes, c) ==
    ReadPage(SliceFrom(Section(bytes, c.chunk.MetaData), c.rpos),
             c.chunk.MetaData, c.schema)

\* two pages of 17 bytes, a dictionary page, a page of three values
TwoPages ==
    { OnePage, DataPage(1, 0, <<9, 0, 0, 0>>), DictionaryPage,
      DataPage(3, 0, <<1, 0, 0, 0, 2, 0, 0, 0, 3, 0, 0, 0>>) }

TwoFiles == {Concat(ps) : ps \in SeqsUpTo(TwoPages, MaxTwoPages)}

\* chunks at the first and at the second page, of one page and to the end
TwoChunks ==
    {Chunk([BaseMetaData EXCEPT !.DataPageOffset = o, !.TotalCompressedSize = n])
        : o \in {0, 17}, n \in {17, 100000}}

InitTwo ==
    /\ rpc = "two"
    /\ file \in TwoFiles
    /\ chunk = ZeroColumnChunk
    /\ schema = ZeroSchemaElement
    /\ rpos = 0
    /\ values = <<>>
    /\ pagesRead = 0
    /\ totalValuesRead = 0
    /\ page = NoPage
    /\ \E a \in TwoChunks, b \in TwoChunks :
           /\ a # b
           /\ calls = <<NewCall(a, BaseSchema), NewCall(b, BaseSchema)>>
    /\ IdleThrift
    /\ IdleDecode

TwoCallStep(i) ==
    /\ calls[i].rpc = "call"
    /\ calls' = [calls EXCEPT ![i] = CallOf(Own(calls, i))]
    /\ UNCHANGED <<rpc, file, chunk, schema, rpos, values, pagesRead,
                   totalValuesRead, page, thriftVars, decodeVars>>

TwoPageStep(i) ==
    /\ calls[i].rpc = "loop"
    /\ calls' = [calls EXCEPT
                    ![i] = PageOf(Own(calls, i), ReadPageOf(file, Own(calls, i)))]
    /\ UNCHANGED <<rpc, file, chunk, schema, rpos, values, pagesRead,
                   totalValuesRead, page, thriftVars, decodeVars>>

NextTwo ==
    \/ \E i \in 1..2 : TwoCallStep(i)
    \/ \E i \in 1..2 : TwoPageStep(i)

SpecTwo == InitTwo /\ [][NextTwo]_vars

----------------------------------------------------------------------------
(* SpecPeek: parseCompactStructFromBufio on a reader, one step per         *)
(* iteration of its loop.  tOut holds the argument maxPeek (arg), the      *)
(* variables maxPeek and peekN, the size of the last Peek (window), the    *)
(* number of parse attempts (tries), the bytes the reader has handed out   *)
(* since the call (pos) and the consumed count and the error that are      *)
(* returned; tParse is what the last parseCompactStructFromBytes returned. *)

\* a struct of one binary field of 260 bytes: 264 bytes
LongHeader == <<24, 132, 2>> \o [i \in 1..260 |-> 0] \o <<0>>

\* a page header, a header cut short, the empty struct, LongHeader
PeekTokens == {PageHeaderBytes(0, 4, 4, 1, 0), <<21>>, <<0>>, LongHeader}

PeekInputs == {Concat(ts) : ts \in SeqsUpTo(PeekTokens, MaxPeekTokens)}

\* maxPeek: unset, below and above the first window, the 64 KiB of
\* readColumnValues
MaxPeekChoices == {-1, 0, 1, 4, 13, 300, 512, 64 * 1024}

InitPeek ==
    /\ tpc = "call"
    /\ tBytes \in PeekInputs
    /\ tParse = NoParse
    /\ tKind = ""
    /\ \E m \in MaxPeekChoices :
           tOut = [arg |-> m, maxPeek |-> m, peekN |-> 0, window |-> 0,
                   tries |-> 0, pos |-> 0, consumed |-> 0, err |-> FALSE]
    /\ IdleDecode
    /\ IdleRead

\* lines 38-42
PeekCallStep ==
    /\ tpc = "call"
    /\ tOut' = [tOut EXCEPT !.maxPeek = IF @ <= 0 THEN 64 * 1024 ELSE @,
                            !.peekN = 256]
    /\ tpc' = "peek"
    /\ UNCHANGED <<tBytes, tParse, tKind, decodeVars, readVars>>

\* lines 53-76: n is the window, p what parseCompactStructFromBytes returned
\* for the peeked bytes b
PeekEnd(n, b, p) ==
    /\ tParse' = p
    /\ IF Len(b) = 0
       THEN /\ tpc' = "failed"
            /\ tOut' = [tOut EXCEPT !.peekN = n, !.window = n, !.err = TRUE]
       ELSE IF ~p.err
       THEN IF p.consumed <= 0
            THEN /\ tpc' = "failed"
                 /\ tOut' = [tOut EXCEPT !.peekN = n, !.window = n, !.tries = @ + 1,
                                         !.err = TRUE]
            ELSE /\ tpc' = "returned"
                 /\ tOut' = [tOut EXCEPT !.peekN = n, !.window = n, !.tries = @ + 1,
                                         !.pos = Discard(@, p.consumed),
                                         !.consumed = p.consumed]
       ELSE IF n >= tOut.maxPeek
       THEN /\ tpc' = "failed"
            /\ tOut' = [tOut EXCEPT !.peekN = n, !.window = n, !.tries = @ + 1,
                                         !.err = TRUE]
       ELSE /\ tpc' = "peek"
            /\ tOut' = [tOut EXCEPT !.peekN = Grow(n), !.window = n,
                                    !.tries = @ + 1]
    /\ UNCHANGED <<tBytes, tKind, decodeVars, readVars>>

\* one iteration of the loop, lines 44-76
PeekStep ==
    /\ tpc = "peek"
    /\ \E b \in {Peeked(SliceFrom(tBytes, tOut.pos),
                        Window(tOut.peekN, tOut.maxPeek))} :
           PeekEnd(Window(tOut.peekN, tOut.maxPeek), b,
                   IF Len(b) = 0 THEN NoParse ELSE parseCompactStructFromBytes(b))

NextPeek == PeekCallStep \/ PeekStep

SpecPeek == InitPeek /\ [][NextPeek]_vars

\* parseCompactStructFromBufio is between its call and its return
Peeking == tpc \in {"call", "peek"}

\* The goroutine is not suspended for ever: weak fairness of NextPeek.
\* Both actions have no guard but tpc and each changes tpc or tries, so that
\* ENABLED <<NextPeek>>_vars is Peeking and WF_vars(NextPeek) is
PeekFairness == []<>(~Peeking) \/ []<><<NextPeek>>_vars

FairSpecPeek == SpecPeek /\ PeekFairness

----------------------------------------------------------------------------
(* Claims about the compact struct parser and thriftFields (SpecFields).   *)

FieldsDone == tpc = "mapped" /\ tKind = "thriftFields"

IdsOf(out) == [k \in 1..Len(out) |-> out[k].ID]

PrevIdOf(out, k) == IF k = 1 THEN 0 ELSE out[k - 1].ID

\* C7, as stated: with a running previous id that starts at 0, a field of
\* header high nibble d in 1..15 gets id = previous id + d, a field of high
\* nibble 0 gets the zigzag varint that follows as its id.
C7_IdsUnbounded ==
    FieldsDone =>
        \A k \in 1..Len(tOut.out) :
            LET f == tParse.st.fields[k]
                d == (f.field_header \div 16) % 16
            IN  tOut.out[k].ID = IF d = 0 THEN f.extended_delta
                                 ELSE PrevIdOf(tOut.out, k) + d

\* C7, amended: the same with the sum and the extended id reduced to a
\* signed 16-bit value (the id is an int16); short deltas 3 then 5 give ids
\* 3 and 8, extended id 20 then short delta 2 gives 20 and 22.
C7_IdsInt16 ==
    FieldsDone =>
        /\ \A k \in 1..Len(tOut.out) :
               LET f == tParse.st.fields[k]
                   d == (f.field_header \div 16) % 16
               IN  tOut.out[k].ID = IF d = 0 THEN ToInt16(f.extended_delta)
                                    ELSE ToInt16(PrevIdOf(tOut.out, k) + d)
        /\ tBytes = <<49, 81, 0>> => IdsOf(tOut.out) = <<3, 8>>
        /\ tBytes = <<1, 40, 33, 0>> => IdsOf(tOut.out) = <<20, 22>>

C7_Witness ==
    /\ FieldsDone
    /\ tBytes = <<1, 40, 33, 0>>
    /\ IdsOf(tOut.out) = <<20, 22>>

\* C8: a parsed struct's fields end with the first field of header byte 0,
\* which is the last byte consumed; thriftFields returns the fields before
\* it, in order, and not the STOP record; a struct whose first byte is 0 has
\* no logical field and consumes one byte.
C8_StopEndsStruct ==
    /\ (tpc # "start" /\ ~tParse.err) =>
            LET fs == tParse.st.fields
            IN  /\ Len(fs) >= 1
                /\ fs[Len(fs)].field_header = 0
                /\ \A i \in 1..(Len(fs) - 1) : fs[i].field_header # 0
                /\ tParse.consumed \in 1..Len(tBytes)
                /\ tBytes[tParse.consumed] = 0
    /\ FieldsDone =>
            LET fs == tParse.st.fields
            IN  /\ ~tOut.err
                /\ Len(tOut.out) = Len(fs) - 1
                /\ \A k \in 1..Len(tOut.out) :
                       /\ tOut.out[k].Type = fs[k].field_header % 16
                       /\ tOut.out[k].Val = fs[k].value
    /\ (tpc # "start" /\ tBytes # <<>> /\ tBytes[1] = 0) =>
            /\ ~tParse.err
            /\ tParse.consumed = 1
            /\ FieldsDone => tOut.out = <<>>

C8_Witness ==
    /\ FieldsDone
    /\ tBytes = <<49, 0, 81, 0>>
    /\ tParse.consumed = 2
    /\ Len(tOut.out) = 1

----------------------------------------------------------------------------
(* Claims about the metadata mapper (SpecMapper).                          *)

MetadataKinds == {"FileMetaData", "SchemaElement", "RowGroup", "ColumnChunk",
                  "ColumnMetaData"}

MapperDone == tpc = "mapped" /\ tKind \in MetadataKinds \cup {"PageHeader"}

\* the field-id tables: the wire types expected for each known id
ExpectedTypes(kind) ==
    CASE kind = "FileMetaData" -> (1 :> {5}) @@ (2 :> {9, 10}) @@ (3 :> {6}) @@ (4 :> {9, 10})
      [] kind = "SchemaElement" ->
            [i \in 1..9 |-> IF i = 4 THEN {8} ELSE {5}]
      [] kind = "RowGroup" ->
            (1 :> {9, 10}) @@ (2 :> {6}) @@ (3 :> {6}) @@ (5 :> {6}) @@ (6 :> {6})
      [] kind = "ColumnChunk" -> (1 :> {8}) @@ (2 :> {6}) @@ (3 :> {12})
      [] kind = "ColumnMetaData" ->
            (1 :> {5}) @@ (2 :> {9, 10}) @@ (3 :> {9, 10}) @@ (4 :> {5}) @@ (5 :> {6})
                @@ (6 :> {6}) @@ (7 :> {6}) @@ (9 :> {6}) @@ (11 :> {6})
      [] kind = "PageHeader" -> (1 :> {5}) @@ (2 :> {5}) @@ (3 :> {5}) @@ (5 :> {12})

KnownIDs(kind) == DOMAIN ExpectedTypes(kind)

LogicalFields == thriftFields(tParse.st).out

\* C4: a known field id carried with another wire type than the one
\* expected for it, or a schema list element that is not a struct, makes the
\* metadata decoder fail.
C4_MismatchFails ==
    (tpc = "mapped" /\ tKind \in MetadataKinds) =>
        /\ (\E k \in 1..Len(LogicalFields) :
                /\ LogicalFields[k].ID \in KnownIDs(tKind)
                /\ LogicalFields[k].Type \notin ExpectedTypes(tKind)[LogicalFields[k].ID])
              => tOut.err
        /\ (/\ tKind = "FileMetaData"
            /\ \E k \in 1..Len(LogicalFields) :
                   /\ LogicalFields[k].ID = 2
                   /\ LogicalFields[k].Type \in {9, 10}
                   /\ \E e \in 1..Len(LogicalFields[k].Val.elems) :
                          LogicalFields[k].Val.elems[e].vt # 12)
              => tOut.err

Present(id, type) ==
    \E k \in 1..Len(LogicalFields) :
        LogicalFields[k].ID = id /\ LogicalFields[k].Type = type

\* C5: each optional field of the model is set exactly when the field is
\* present in the input struct.
C5_OptionalPresence ==
    /\ (tpc = "mapped" /\ tKind = "SchemaElement" /\ ~tOut.err) =>
            /\ tOut.out.TypeLength.set <=> Present(2, 5)
            /\ tOut.out.RepetitionType.set <=> Present(3, 5)
            /\ tOut.out.NumChildren.set <=> Present(5, 5)
            /\ tOut.out.ConvertedType.set <=> Present(6, 5)
            /\ tOut.out.Scale.set <=> Present(7, 5)
            /\ tOut.out.Precision.set <=> Present(8, 5)
            /\ tOut.out.FieldID.set <=> Present(9, 5)
    /\ (tpc = "mapped" /\ tKind = "ColumnChunk" /\ ~tOut.err) =>
            (tOut.out.FilePath # <<>>) <=> Present(1, 8)
    /\ (tpc = "mapped" /\ tKind = "ColumnMetaData" /\ ~tOut.err) =>
            tOut.out.DictionaryPageOffset.set <=> Present(11, 6)

KnownOnly(fs, kind) == SelectSeq(fs, LAMBDA f : f.ID \in KnownIDs(kind))

DecodeKnownOnly(kind) ==
    LET kept == KnownOnly(LogicalFields, kind)
    IN  CASE kind = "FileMetaData" -> FileMetaDataFrom(kept, 1, OK(ZeroFileMetadata))
          [] kind = "SchemaElement" -> SchemaElementFrom(kept, 1, OK(ZeroSchemaElement))
          [] kind = "RowGroup" -> RowGroupFrom(kept, 1, OK(ZeroRowGroup))
          [] kind = "ColumnChunk" -> ColumnChunkFrom(kept, 1, OK(ZeroColumnChunk))
          [] kind = "ColumnMetaData" -> ColumnMetaDataFrom(kept, 1, OK(ZeroColumnMetaData))
          [] kind = "PageHeader" -> PageHeaderFrom(kept, 1, OK(ZeroPageHeader))

HasUnknown(kind) ==
    \E k \in 1..Len(LogicalFields) : LogicalFields[k].ID \notin KnownIDs(kind)

\* C6: in every metadata decoder and in decodePageHeader, fields of an id
\* outside the struct's table raise no error and change nothing: the result
\* is the result for the struct without them (for decodePageHeader also
\* inside the data page header, whose table is {1, 2}).
C6_UnknownIgnored ==
    MapperDone =>
        /\ ~tOut.err
        /\ tOut = DecodeKnownOnly(tKind)
        /\ tKind = "PageHeader" =>
              \A k \in 1..Len(LogicalFields) :
                  (LogicalFields[k].ID = 5 /\ LogicalFields[k].Type = 12) =>
                      LET inner == thriftFields(LogicalFields[k].Val).out
                          keep  == SelectSeq(inner, LAMBDA f : f.ID \in {1, 2})
                      IN  DataPageHeaderFrom(inner, 1, OK(ZeroPageHeader))
                              = DataPageHeaderFrom(keep, 1, OK(ZeroPageHeader))

C6_Witness ==
    /\ MapperDone
    /\ tKind = "SchemaElement"
    /\ HasUnknown("SchemaElement")
    /\ tOut.out.Type = 1

----------------------------------------------------------------------------
(* Claims about the level and value decoders (SpecDecode).                 *)

Called(fn) == dpc = "done" /\ dCall.fn = fn

\* C9: parseDataPageWithEncoding returns an error, and no values, for every
\* encoding other than PLAIN (0) and DELTA_BINARY_PACKED (5).
C9_UnsupportedEncodingFails ==
    (/\ Called("parseDataPageWithEncoding")
     /\ dCall.encoding \notin {0, 5}
     /\ ~dOut.panic)
        => (dOut.err /\ dOut.values = <<>>)

\* C10: decodePlainValues returns the unsupported-type error, and no
\* values, for the types BOOLEAN (0), INT96 (3) and FIXED_LEN_BYTE_ARRAY (7),
\* whatever the buffer and numValues.
C10_UnsupportedTypeFails ==
    (Called("decodePlainValues") /\ dCall.dataType \in {0, 3, 7})
        => (dOut.err /\ dOut.values = <<>>)

\* the offset behind the complete varint at offset, -1 if the buffer ends
\* in it
RECURSIVE VarintBehind(_, _)
VarintBehind(data, offset) ==
    IF offset >= Len(data) THEN -1
    ELSE IF data[offset + 1] < 128 THEN offset + 1
    ELSE VarintBehind(data, offset + 1)

\* the offset behind n complete varints from offset, -1 if there are fewer
RECURSIVE VarintsBehind(_, _, _)
VarintsBehind(data, offset, n) ==
    IF n = 0 \/ offset = -1 THEN offset
    ELSE VarintsBehind(data, VarintBehind(data, offset), n - 1)

\* the number of complete varints from offset on
RECURSIVE CompleteVarints(_, _)
CompleteVarints(data, offset) ==
    IF VarintBehind(data, offset) = -1 THEN 0
    ELSE 1 + CompleteVarints(data, VarintBehind(data, offset))

\* C15: on a buffer that holds the three header varints and a first value,
\* decodeDeltaBinaryPacked returns without error exactly
\* min(numValues, 1 + number of complete delta varints behind the first
\* value) values: a delta in the last byte of the buffer is counted and the
\* result is never longer than numValues.
C15_DeltaCount ==
    (/\ Called("decodeDeltaBinaryPacked")
     /\ dNum >= 0
     /\ VarintsBehind(dData, 0, 4) # -1) =>
        /\ ~dOut.err
        /\ ~dOut.panic
        /\ Len(dOut.values)
              = Min(dNum, 1 + CompleteVarints(dData, VarintsBehind(dData, 0, 4)))

\* the definition levels decoded from pageData on the branch that is taken
\* for the column: lines 19, 27 and 41
DefinitionLevels(pageData) ==
    IF dCall.repetitionType.set /\ dCall.repetitionType.v = 0
    THEN decodeRLELevels(pageData, dNum, 1).levels
    ELSE IF /\ Uint32(pageData, 0) > 0
            /\ Uint32(pageData, 0) < Len(pageData)
            /\ Uint32(pageData, 0) < 10000
    THEN decodeRLELevels(pageData, dNum, dCall.maxDefinitionLevel).levels
    ELSE decodeRLEBytesWithOffset(pageData, dNum, dCall.maxDefinitionLevel).levels

\* the largest level of the definition section: 1, the bit width the levels
\* of a REQUIRED column are decoded with, or maxDefinitionLevel
MaxOfSection ==
    IF dCall.repetitionType.set /\ dCall.repetitionType.v = 0 THEN 1
    ELSE dCall.maxDefinitionLevel

\* p is pageData behind the repetition levels, q behind the definition levels
LevelsValidWhereStripped(p, q) ==
    /\ (~p.panic /\ p.data # dData) =>
            /\ ValidLevels(decodeRLELevels(dData, dNum, 1).levels, 1)
            /\ Len(dData) - Len(p.data) \in 1..Len(dData)
    /\ (~p.panic /\ ~q.panic /\ q.data # p.data) =>
            /\ ValidLevels(DefinitionLevels(p.data), MaxOfSection)
            /\ Len(p.data) - Len(q.data) \in 1..Len(p.data)

\* C20: parseDataPageWithEncoding takes a level section off the page (the
\* repetition levels of a REPEATED column; the definition levels on the
\* REQUIRED branch, the length-prefixed branch and the fallback without a
\* length) only if every level decoded from it is at most the largest level
\* of the section (1 for the sections decoded at bit width 1) and the bytes
\* taken off are more than none and at most the buffer.
C20_StrippedLevelsValid ==
    Called("parseDataPageWithEncoding") =>
        LevelsValidWhereStripped(
            AfterRepetition(dData, dNum, dCall.repetitionType),
            AfterDefinition(AfterRepetition(dData, dNum, dCall.repetitionType),
                            dNum, dCall.repetitionType, dCall.maxDefinitionLevel))

\* the definition levels of pageData are looked for: lines 18, 23 and 24
DefinitionAttempted(pageData) ==
    \/ dCall.repetitionType.set /\ dCall.repetitionType.v = 0
    \/ dCall.maxDefinitionLevel > 0 /\ Len(pageData) >= 4

\* what the attempt on pageData decoded, on the branch taken for the column
DefinitionDecoded(pageData) ==
    IF dCall.repetitionType.set /\ dCall.repetitionType.v = 0
    THEN decodeRLELevels(pageData, dNum, 1)
    ELSE IF /\ Uint32(pageData, 0) > 0
            /\ Uint32(pageData, 0) < Len(pageData)
            /\ Uint32(pageData, 0) < 10000
    THEN decodeRLELevels(pageData, dNum, dCall.maxDefinitionLevel)
    ELSE decodeRLEBytesWithOffset(pageData, dNum, dCall.maxDefinitionLevel)

\* the reasons an attempt is rejected for: a decoder error, no levels, on
\* the branches of line 23 a level above maxDefinitionLevel (the levels of
\* a REQUIRED column are not looked at), and on the branch without a length
\* too many levels or a byte count that is none or the whole buffer
DefinitionRejected(pageData, r) ==
    \/ r.err
    \/ Len(r.levels) = 0
    \/ /\ ~(dCall.repetitionType.set /\ dCall.repetitionType.v = 0)
       /\ ~ValidLevels(r.levels, dCall.maxDefinitionLevel)
    \/ /\ "bytesRead" \in DOMAIN r
       /\ \/ Len(r.levels) > dNum + 10
          \/ r.bytesRead <= 0
          \/ r.bytesRead >= Len(pageData)

\* p is pageData behind the repetition levels, q behind the definition levels
RejectedLeavesBuffer(p, q) ==
    /\ (/\ dCall.repetitionType.set
        /\ dCall.repetitionType.v = 2
        /\ decodeRLELevels(dData, dNum, 1).err) => p = PageData(dData)
    /\ (/\ ~p.panic
        /\ DefinitionAttempted(p.data)
        /\ ~DefinitionDecoded(p.data).panic
        /\ DefinitionRejected(p.data, DefinitionDecoded(p.data))) => q = p
    /\ (~p.panic /\ ~DefinitionAttempted(p.data)) => q = p
    /\ dOut = DecodeEncoding(q, dCall.dataType, dCall.encoding, dNum)

ImplausibleLength(pageData) ==
    \/ Uint32(pageData, 0) = 0
    \/ Uint32(pageData, 0) > Len(pageData) - 4
    \/ Uint32(pageData, 0) > 10000

\* p is pageData behind the repetition levels, q behind the definition levels
FallbackWhereImplausible(p, q) ==
    (~p.panic /\ Len(p.data) >= 4) =>
        IF ImplausibleLength(p.data)
        THEN q = BareStripped(p.data, dNum,
                     decodeRLEBytesWithOffset(p.data, dNum, dCall.maxDefinitionLevel),
                     dCall.maxDefinitionLevel)
        ELSE q = LengthPrefixedStripped(p.data,
                     decodeRLELevels(p.data, dNum, dCall.maxDefinitionLevel),
                     dCall.maxDefinitionLevel)

\* C23: for a column that readColumnValues gives a nonzero maximum
\* definition level (REQUIRED and OPTIONAL), parseDataPageWithEncoding
\* takes the definition levels with the length-prefixed decode when the
\* declared length is plausible, and with decodeRLEBytesWithOffset whenever
\* it is zero, more than the bytes behind the prefix or above 10000: no
\* such column bypasses the fallback.
C23_FallbackOnImplausibleLength ==
    (/\ Called("parseDataPageWithEncoding")
     /\ dNum >= 0
     /\ dCall.maxDefinitionLevel > 0
     /\ dCall.maxDefinitionLevel
            = maxDefinitionLevel([RepetitionType |-> dCall.repetitionType])) =>
        FallbackWhereImplausible(
            AfterRepetition(dData, dNum, dCall.repetitionType),
            AfterDefinition(AfterRepetition(dData, dNum, dCall.repetitionType),
                            dNum, dCall.repetitionType, dCall.maxDefinitionLevel))

----------------------------------------------------------------------------
(* Claims about the hybrid level decoders (SpecLevels).                    *)

LevelsCalled ==
    /\ dpc = "done"
    /\ dCall.fn \in {"decodeRLEBytes", "decodeRLEBytesWithOffset"}
    /\ dCall.bitWidth <= 8
    /\ dNum >= 0

\* the same decoder on the bytes behind the first block, for the values
\* that are still missing
OnRest(rest, numValues) ==
    IF dCall.fn = "decodeRLEBytes"
    THEN decodeRLEBytes(rest, numValues, dCall.bitWidth)
    ELSE decodeRLEBytesWithOffset(rest, numValues, dCall.bitWidth)

\* the call's result is the values vals of a first block of size bytes (the
\* first numValues of them), then the result on the bytes behind it; r is
\* that result
BlockThenRest(vals, size, r) ==
    IF Len(vals) >= dNum
    THEN /\ ~dOut.err
         /\ dOut.levels = SubSeq(vals, 1, dNum)
         /\ dCall.fn = "decodeRLEBytesWithOffset" => dOut.bytesRead = size
    ELSE /\ dOut.err = r.err
         /\ dOut.levels = vals \o r.levels
         /\ (dCall.fn = "decodeRLEBytesWithOffset" /\ ~r.err)
                => dOut.bytesRead = size + r.bytesRead

\* C16: a block whose header has low bit 0 is a run of count = header >> 1
\* values: with bitWidth > 0 the one byte behind the header, taken count
\* times, and with bitWidth = 0 no byte and count times 0; the next block
\* starts behind it.  The bytes 08 05 with numValues = 4 and bitWidth > 0
\* decode to 5, 5, 5, 5.
C16_RLERun ==
    (LevelsCalled /\ dNum > 0 /\ dData # <<>> /\ dData[1] < 128 /\ dData[1] % 2 = 0) =>
        /\ (dCall.bitWidth > 0 /\ Len(dData) >= 2) =>
              BlockThenRest([k \in 1..(dData[1] \div 2) |-> dData[2]], 2,
                            OnRest(SliceFrom(dData, 2), dNum - dData[1] \div 2))
        /\ dCall.bitWidth = 0 =>
              BlockThenRest([k \in 1..(dData[1] \div 2) |-> 0], 1,
                            OnRest(SliceFrom(dData, 1), dNum - dData[1] \div 2))
        /\ (dCall.bitWidth > 0 /\ dData = <<8, 5>> /\ dNum = 4) =>
              dOut.levels = <<5, 5, 5, 5>>

C16_Witness ==
    /\ LevelsCalled
    /\ dCall.bitWidth = 3
    /\ dData = <<8, 5, 2, 1>>
    /\ dNum = 8
    /\ dOut.levels = <<5, 5, 5, 5, 1>>
    /\ ~dOut.err

\* bit b (from 0) of the bytes, the bits of a byte counted from its lowest
BitOf(bytes, b) == (bytes[b \div 8 + 1] \div Pow2(b % 8)) % 2

\* the number held by the bits [i*w, (i+1)*w) of the bytes, lowest bit first
RECURSIVE BitsFrom(_, _, _, _)
BitsFrom(bytes, i, w, j) ==
    IF j >= w THEN 0
    ELSE BitOf(bytes, i * w + j) * Pow2(j) + BitsFrom(bytes, i, w, j + 1)

PackedValues(bytes, n, w) == [i \in 1..n |-> BitsFrom(bytes, i - 1, w, 0)]

\* C17: a block whose header has low bit 1 holds (header >> 1) * 8 values of
\* bitWidth bits, value i being the bits [i*bitWidth, (i+1)*bitWidth) of the
\* block body, lowest bit first and across byte boundaries; the body is
\* ceil((header >> 1) * 8 * bitWidth / 8) bytes, which
\* decodeRLEBytesWithOffset counts as consumed, and the next block starts
\* behind it.  decodeBitPackedBytes itself returns these values for every
\* value that lies in its buffer.
C17_BitPacked ==
    /\ (/\ LevelsCalled
         /\ dNum > 0
         /\ dData # <<>>
         /\ dData[1] < 128
         /\ dData[1] % 2 = 1
         /\ Len(dData) >= 1 + ((dData[1] \div 2) * 8 * dCall.bitWidth + 7) \div 8) =>
            BlockThenRest(
                PackedValues(SliceFrom(dData, 1), (dData[1] \div 2) * 8, dCall.bitWidth),
                1 + ((dData[1] \div 2) * 8 * dCall.bitWidth + 7) \div 8,
                OnRest(SliceFrom(dData, 1 + ((dData[1] \div 2) * 8 * dCall.bitWidth + 7) \div 8),
                       dNum - (dData[1] \div 2) * 8))
    /\ Called("decodeBitPackedBytes") =>
            \A i \in 1..dNum :
                (i * dCall.bitWidth <= 8 * Len(dData)) =>
                    /\ i <= Len(dOut.levels)
                    /\ dOut.levels[i] = BitsFrom(dData, i - 1, dCall.bitWidth, 0)

\* one group at three bits: three bytes behind the header, the values 0..7
C17_Witness ==
    /\ Called("decodeRLEBytesWithOffset")
    /\ dCall.bitWidth = 3
    /\ dData = <<3, 136, 198, 250>>
    /\ dNum = 8
    /\ dOut.levels = <<0, 1, 2, 3, 4, 5, 6, 7>>
    /\ dOut.bytesRead = 4
    /\ ~dOut.err

\* a walk over the blocks: n is the number of values they encode, counted
\* up to need, and end the offset behind the last block that is needed
NoBlock(i) == [n |-> 0, end |-> i]

AddBlock(size, need, r) == [n |-> Min(size, need) + r.n, end |-> r.end]

\* the walk from offset i, at a block of header h: a block that is cut, or
\* of more than 16*1024*1024 values or groups, ends it
RECURSIVE BlocksFrom(_, _, _, _)
BlockAt(data, w, need, i, h) ==
    IF h.n <= 0 \/ h.big \/ h.u \div 2 > 16 * 1024 * 1024 THEN NoBlock(i)
    ELSE IF h.u % 2 = 1
    THEN IF i + h.n + (h.u \div 2) * w > Len(data) THEN NoBlock(i)
         ELSE AddBlock((h.u \div 2) * 8, need,
                       BlocksFrom(data, w, need - (h.u \div 2) * 8,
                                  i + h.n + (h.u \div 2) * w))
    ELSE IF w > 0 /\ i + h.n + 1 > Len(data) THEN NoBlock(i)
         ELSE AddBlock(h.u \div 2, need,
                       BlocksFrom(data, w, need - h.u \div 2,
                                  i + h.n + (IF w > 0 THEN 1 ELSE 0)))

BlocksFrom(data, w, need, i) ==
    IF need <= 0 \/ i >= Len(data) THEN NoBlock(i)
    ELSE BlockAt(data, w, need, i, Uvarint(SliceFrom(data, i)))

\* C18: for every input and numValues >= 0 the levels returned by
\* decodeRLEBytes and decodeRLEBytesWithOffset, with or without an error,
\* are at most numValues; they are exactly numValues, without error, when
\* the blocks of the input encode that many, and then no block behind the
\* one that completes them is read.
C18_AtMostNumValues ==
    /\ (/\ dpc = "done"
         /\ dCall.fn \in {"decodeRLEBytes", "decodeRLEBytesWithOffset"}
         /\ dNum >= 0) =>
            /\ ~dOut.panic
            /\ Len(dOut.levels) <= dNum
    /\ (LevelsCalled /\ BlocksFrom(dData, dCall.bitWidth, dNum, 0).n >= dNum) =>
            /\ ~dOut.err
            /\ Len(dOut.levels) = dNum
            /\ dCall.fn = "decodeRLEBytesWithOffset" =>
                  dOut.bytesRead = BlocksFrom(dData, dCall.bitWidth, dNum, 0).end

\* three of a run of four, the run behind it not read
C18_Witness ==
    /\ Called("decodeRLEBytesWithOffset")
    /\ dCall.bitWidth = 1
    /\ dData = <<8, 5, 2, 1>>
    /\ dNum = 3
    /\ dOut.levels = <<5, 5, 5>>
    /\ dOut.bytesRead = 2

\* C19: a call of a hybrid level decoder with bitWidth 0..8 returns an
\* error or has materialised at most 16,777,216 values, whatever the block
\* headers say, in RLE and in bit-packed mode.
C19_AtMost16MValues ==
    LevelsCalled => (dOut.err \/ dOut.made <= 16 * 1024 * 1024)

\* the bytes of the header of the block at offset i that binary.Uvarint has
\* read: none of a header that is cut or too long
HeaderBytes(data, i) ==
    IF i >= Len(data) \/ Uvarint(SliceFrom(data, i)).n <= 0 THEN 0
    ELSE Uvarint(SliceFrom(data, i)).n

\* the offset of the first byte that is not read: behind the blocks that are
\* read whole and, when the call fails at a block, behind its header
FirstUnread(data, w, need, err) ==
    IF err THEN BlocksFrom(data, w, need, 0).end
                    + HeaderBytes(data, BlocksFrom(data, w, need, 0).end)
    ELSE BlocksFrom(data, w, need, 0).end

\* r is what the other one of the two decoders returns for the call
SameLevels(r) ==
    /\ dOut.err = r.err
    /\ dOut.panic = r.panic
    /\ dOut.levels = r.levels

\* C29: for every input, numValues >= 0 and bit width decodeRLEBytes and
\* decodeRLEBytesWithOffset return the same levels and fail on the same
\* inputs, and bytesRead of decodeRLEBytesWithOffset is the offset of the
\* first byte it has not read: the headers, RLE value bytes and bit-packed
\* bodies of the blocks read.
C29_SameDecoder ==
    /\ (Called("decodeRLEBytesWithOffset") /\ dNum >= 0) =>
           /\ SameLevels(decodeRLEBytes(dData, dNum, dCall.bitWidth))
           /\ dCall.bitWidth <= 8 =>
                  dOut.bytesRead = FirstUnread(dData, dCall.bitWidth, dNum, dOut.err)
           /\ dCall.bitWidth > 8 => dOut.bytesRead = 0
    /\ (Called("decodeRLEBytes") /\ dNum >= 0) =>
           SameLevels(decodeRLEBytesWithOffset(dData, dNum, dCall.bitWidth))

\* a run of one level and a bit-packed group of eight, at bit width 1: the
\* nine levels are complete after four bytes and the two behind are not read
C29_Witness ==
    /\ Called("decodeRLEBytesWithOffset")
    /\ dCall.bitWidth = 1
    /\ dData = <<2, 1, 3, 136, 198, 250>>
    /\ dNum = 9
    /\ dOut.levels = <<1, 0, 0, 0, 1, 0, 0, 0, 1>>
    /\ ~dOut.err
    /\ dOut.bytesRead = 4

----------------------------------------------------------------------------
(* Claims about decodePlainValues (SpecPlain).                             *)

\* the width of a fixed-width type: INT32 and FLOAT 4, INT64 and DOUBLE 8
Width(dataType) == IF dataType \in {1, 4} THEN 4 ELSE 8

\* byte k (from 0) of the little-endian two's complement of n, a number of
\* the 32-bit range, in a word of four or eight bytes
TwosComplementByte(n, k) ==
    IF k >= 4 THEN (IF n < 0 THEN 255 ELSE 0)
    ELSE (n \div Pow2(8 * k)) % 256

\* the bytes a decoded value stands for, w bytes wide
LittleEndian(v, w) ==
    IF v.bin # <<>> THEN v.bin
    ELSE [k \in 1..w |-> TwosComplementByte(v.n, k - 1)]

\* C11: for INT32 (width 4) and INT64 (width 8) decodePlainValues returns
\* without error exactly min(numValues, floor(L / w)) values (none for a
\* negative numValues), the k-th being the little-endian two's-complement
\* integer at bytes [k*w, (k+1)*w) and of the Go type of the column; so a
\* buffer of n encoded values decoded with numValues = n gives them back.
C11_FixedWidthValues ==
    (Called("decodePlainValues") /\ dCall.dataType \in {1, 2}) =>
        LET w == Width(dCall.dataType)
        IN  /\ ~dOut.err
            /\ ~dOut.panic
            /\ Len(dOut.values) = IF dNum < 0 THEN 0 ELSE Min(dNum, Len(dData) \div w)
            /\ \A k \in 1..Len(dOut.values) :
                   /\ dOut.values[k].vt = dCall.dataType
                   /\ dOut.values[k].n \in -2147483647 - 1..2147483647
                   /\ LittleEndian(dOut.values[k], w)
                          = SubSeq(dData, (k - 1) * w + 1, k * w)

\* four INT32 values, two of them negative, decoded with numValues = 4
C11_Witness ==
    /\ Called("decodePlainValues")
    /\ dCall.dataType = 1
    /\ dNum = 4
    /\ dData = <<7, 0, 0, 0, 254, 255, 255, 255, 0, 0, 0, 128, 7, 0, 0, 0>>
    /\ dOut.values = <<MkInt32(7), MkInt32(-2), MkInt32(-2147483647 - 1), MkInt32(7)>>

\* the offset behind the complete value at offset, -1 if the bytes left do
\* not hold one: w bytes, for BYTE_ARRAY the length prefix and the string
ValueEnd(data, dataType, offset) ==
    IF dataType = 6
    THEN IF offset + 4 > Len(data) THEN -1
         ELSE IF Uint32(data, offset) > Len(data) - (offset + 4) THEN -1
         ELSE offset + 4 + Uint32(data, offset)
    ELSE IF offset + Width(dataType) > Len(data) THEN -1
         ELSE offset + Width(dataType)

\* the value at offset, a complete one
ValueAt(data, dataType, offset) ==
    CASE dataType = 1 -> MkInt32(Int32(data, offset))
      [] dataType = 2 -> Int64Value(data, offset)
      [] dataType = 6 -> MkBits(6, Slice(data, offset + 4, ValueEnd(data, dataType, offset)))
      [] OTHER -> MkBits(dataType, Slice(data, offset, offset + Width(dataType)))

\* the values before the first point at which the bytes left do not hold
\* one more complete value, n of them at most
RECURSIVE ValuesUntilShort(_, _, _, _)
ValuesUntilShort(data, dataType, n, offset) ==
    IF n <= 0 \/ ValueEnd(data, dataType, offset) = -1 THEN <<>>
    ELSE <<ValueAt(data, dataType, offset)>>
            \o ValuesUntilShort(data, dataType, n - 1, ValueEnd(data, dataType, offset))

\* C12: decodePlainValues stops without error at the first point at which
\* the bytes left do not hold one more complete value (for BYTE_ARRAY the
\* four bytes of the length and the bytes it declares): the result is the
\* values before that point and no byte behind it is read as a length or
\* a value.
C12_StopsAtShortValue ==
    (Called("decodePlainValues") /\ dCall.dataType \in {1, 2, 4, 5, 6}) =>
        /\ ~dOut.err
        /\ dOut.values = ValuesUntilShort(dData, dCall.dataType, dNum, 0)

----------------------------------------------------------------------------
(* Claims about the varint decoders (SpecVarint).                          *)

\* the buffer starts with a complete varint of n bytes
VarintOf(n) ==
    /\ n \in 1..Len(dData)
    /\ dData[n] < 128
    /\ \A k \in 1..(n - 1) : dData[k] >= 128

\* the value of a varint of at most four bytes
RECURSIVE GroupSum(_, _)
GroupSum(bytes, k) ==
    IF k > Len(bytes) THEN 0
    ELSE (bytes[k] % 128) * Pow2(7 * (k - 1)) + GroupSum(bytes, k + 1)

\* (u >> 1) XOR -(u & 1)
ZigZagDecode(u) == IF u % 2 = 0 THEN u \div 2 ELSE -((u + 1) \div 2)

\* C13: readVarint and varint_z decode a zigzag varint of unsigned value u
\* to (u >> 1) XOR -(u & 1): 0, 1, 2, 3, 4 to 0, -1, 1, -2, 2, and the zigzag
\* encoding of a signed value v to v.
C13_ZigZagDecoded ==
    (Called("readVarint") \/ Called("varint_z")) =>
        /\ \A n \in 1..4 :
               VarintOf(n) =>
                   /\ ~dOut.err
                   /\ ~dOut.big
                   /\ dOut.v = ZigZagDecode(GroupSum(SubSeq(dData, 1, n), 1))
        /\ \A v \in SignedChoices : dData = ZigZagBytes(v) => dOut.v = v
        /\ \A u \in 0..4 :
               dData = <<u>> => dOut.v = <<0, -1, 1, -2, 2>>[u + 1]

\* the varint of n bytes the buffer starts with holds a value of 64 bits
FitsUint64(n) == n <= 9 \/ (n = 10 /\ dData[10] <= 1)

\* C14: readVarintUnsigned, varint_u and the block-header read of the level
\* decoders return an error for every varint whose value does not fit in 64
\* bits: one of ten bytes whose tenth byte has a data bit above bit 0, and
\* every longer one.
C14_OverflowRejected ==
    (Called("readVarintUnsigned") \/ Called("varint_u") \/ Called("Uvarint")) =>
        \A n \in 1..Len(dData) :
            (VarintOf(n) /\ ~FitsUint64(n)) => dOut.err

----------------------------------------------------------------------------
(* Claims about readColumnValues (Spec, FairSpec).                         *)

\* C1: the values returned for a column chunk with metadata are at most
\* the chunk's num_values.
C1_AtMostNumValues ==
    chunk.HasMetaData => Len(values) <= chunk.MetaData.NumValues

\* C2: an iteration in which the page header does not parse or decode, the
\* page does not decompress or its values do not decode ends the loop and
\* appends nothing.
C2_FailureEndsLoop ==
    [][(page'.headerErr \/ page'.decompressErr \/ page'.valuesErr)
            => (rpc' # "loop" /\ values' = values)]_vars

\* the reader is at the end of the section
Exhausted == rpos >= Len(Section(file, chunk.MetaData))

\* C3: the page loop ends, and after at most 100 pages: the loop is entered
\* only below the ceiling and below num_values, an iteration leaves the loop
\* or counts one more page, and an iteration on the exhausted stream leaves
\* the loop with nothing read.
C3_LoopTerminates ==
    /\ [](pagesRead <= maxPages)
    /\ [](rpc = "loop" =>
            /\ pagesRead < maxPages
            /\ totalValuesRead < chunk.MetaData.NumValues)
    /\ [][rpc = "loop" => (rpc' # "loop" \/ pagesRead' = pagesRead + 1)]_vars
    /\ [][(rpc = "loop" /\ Exhausted) =>
            (rpc' = "returned" /\ pagesRead' = pagesRead /\ values' = values)]_vars
    /\ <>(~Running)

\* the ceiling ends the loop: 100 pages read, values and bytes still missing
C3_Witness ==
    /\ rpc = "returned"
    /\ pagesRead = maxPages
    /\ totalValuesRead < chunk.MetaData.NumValues
    /\ ~Exhausted

\* the byte range of the column chunk: from dictionary_page_offset if the
\* field is present, else from data_page_offset, total_compressed_size bytes
ChunkRange(bytes, md) ==
    SubSeq(bytes,
           (IF md.DictionaryPageOffset.set THEN md.DictionaryPageOffset.v
            ELSE md.DataPageOffset) + 1,
           Min((IF md.DictionaryPageOffset.set THEN md.DictionaryPageOffset.v
                ELSE md.DataPageOffset) + md.TotalCompressedSize, Len(bytes)))

\* C22: every page is read from the byte range that starts at
\* dictionary_page_offset whenever the field is present in the column
\* metadata (with the value 0 as well), at data_page_offset only when it is
\* absent, and that spans total_compressed_size bytes.
C22_ReadsFromDictionaryOffset ==
    [][rpc = "loop" =>
          page' = ReadPage(SliceFrom(ChunkRange(file, chunk.MetaData), rpos),
                           chunk.MetaData, schema)]_vars

----------------------------------------------------------------------------
(* Claims about parseCompactStructFromBufio (SpecPeek, FairSpecPeek).      *)

\* C24: parseCompactStructFromBufio hands out no byte of the reader while
\* it peeks; when it returns a struct the reader is behind exactly the
\* consumed bytes, which are more than none and are the bytes the struct at
\* the start of the reader occupies; when it returns an error the reader is
\* where it was at the call.
C24_ConsumesOnlyOnSuccess ==
    /\ Peeking => tOut.pos = 0
    /\ tpc = "failed" => (tOut.err /\ tOut.pos = 0 /\ tOut.consumed = 0)
    /\ tpc = "returned" =>
           /\ ~tOut.err
           /\ tOut.consumed > 0
           /\ tOut.pos = tOut.consumed
           /\ tParse = parseCompactStructFromBytes(tBytes)
           /\ tOut.consumed = tParse.consumed

\* LongHeader is returned from the second window, with bytes behind it left
\* in the reader
C24_Witness ==
    /\ tpc = "returned"
    /\ tOut.tries = 2
    /\ tOut.pos = Len(LongHeader)
    /\ Len(tBytes) > tOut.pos

\* the growth ceiling for the argument maxPeek
Ceiling == IF tOut.arg <= 0 THEN 64 * 1024 ELSE tOut.arg

\* the step is a parse attempt, the first one, one that failed
Attempt == tOut'.tries = tOut.tries + 1
FirstAttempt == Attempt /\ tOut.tries = 0
FailedAttempt == Attempt /\ tParse'.err

\* what C25 says but for the growth of the window: the first window,
\* the ceiling, the fatal truncation at the ceiling and the retry below it,
\* at most nine attempts, and the return
WindowBounded ==
    /\ [][FirstAttempt => tOut'.window = Min(256, Ceiling)]_vars
    /\ [](tOut.window <= Ceiling)
    /\ [][FailedAttempt =>
            IF tOut'.window >= Ceiling THEN tpc' = "failed" ELSE tpc' = "peek"]_vars
    /\ [](tOut.tries <= 9)
    /\ <>(~Peeking)

NonDataPage(h) ==
    /\ ~h.err
    /\ ~decodePageHeader(h.st).err
    /\ decodePageHeader(h.st).out.pageType # 0

\* the bytes of the page: its header and as many of the compressed_size
\* bytes behind it as the stream holds
PageLength(rest, h) ==
    h.consumed + Min(decodePageHeader(h.st).out.compressedSize,
                     Len(rest) - h.consumed)

\* h is the header at rpos
NonDataPageSkipped(rest, h) ==
    NonDataPage(h) =>
        /\ values' = values
        /\ totalValuesRead' = totalValuesRead
        /\ rpos' = rpos + PageLength(rest, h)
        /\ pagesRead' = pagesRead + 1
        /\ rpc' = IF pagesRead' < maxPages THEN "loop" ELSE "returned"

\* C26: an iteration of the page loop on a page that is no DATA_PAGE
\* appends no value, takes the header and the compressed_size bytes of the
\* body from the stream, so that the next header is parsed behind the body,
\* and counts the page; the loop goes on below the ceiling of 100 pages.
C26_NonDataPageSkipped ==
    [][rpc = "loop" =>
          NonDataPageSkipped(
              SliceFrom(Section(file, chunk.MetaData), rpos),
              parseCompactStructFromBufio(
                  SliceFrom(Section(file, chunk.MetaData), rpos), 64 * 1024))]_vars

\* C27: readColumnValues and the decoders it calls return for every page
\* header and body: no call ends in a run-time panic (a slice index out of
\* range, a negative size or capacity in make).
C27_NeverPanics == rpc # "panic" /\ ~page.panic

----------------------------------------------------------------------------
(* Claims about two calls of readColumnValues (SpecTwo).                   *)

\* readColumnValues run alone from the variables c of a call
RECURSIVE RunAlone(_, _)
RunAlone(bytes, c) ==
    IF c.rpc = "call" THEN RunAlone(bytes, CallOf(c))
    ELSE IF c.rpc = "loop" THEN RunAlone(bytes, PageOf(c, ReadPageOf(bytes, c)))
    ELSE c

\* call i has returned, failed or panicked
Over(i) == calls[i].rpc \notin {"call", "loop"}

====
